---- MODULE Spec2Model ----
(***************************************************************************)
(* Model of the PulseCompass ranking engine: backend/routers/ranking.py,   *)
(* backend/utils/investment_tiers.py, backend/utils/sector_adjustments.py  *)
(* and backend/utils/performance_tracking.py.                              *)
(*                                                                         *)
(* Numbers.  Every metric value is an integer number of hundredths: ROE    *)
(* 25 % is 2500, D/E 0.3 is 30, FCF -600 Cr is -60000.  U(n) is n whole    *)
(* units.  Input values are even numbers of hundredths, so the median of   *)
(* an even number of values is again a whole number of hundredths.         *)
(* Penalties and the cash-flow and valuation multipliers are hundredths    *)
(* too (0.40 is 40, 1.05 is 105); the business-quality multiplier and the  *)
(* scores are thousandths, normalized scores are tenths of a point.        *)
(***************************************************************************)
EXTENDS Integers, Sequences, FiniteSets, TLC

U(n) == n * 100

\* the first argument, whatever the second
Min2_first(a, b) == a

Min2(a, b) == IF a <= b THEN a ELSE b
Max2(a, b) == IF a >= b THEN a ELSE b
Abs(a) == IF a < 0 THEN 0 - a ELSE a

\* pandas NaN: what pd.to_numeric(errors='coerce') leaves in an empty or
\* non-numeric cell; smaller than every metric value of the model
NaN == -9999999

(***************************************************************************)
(* Rows.  A row is [name, m]: name is a company name, m maps the table's   *)
(* metric columns to values.  'c in row' of the code is Has(row, c).       *)
(***************************************************************************)
Has(row, c) == c \in DOMAIN row.m
Get(row, c, default) == IF Has(row, c) THEN row.m[c] ELSE default

(***************************************************************************)
(* Company names.  A name is [id, kw]: kw is the set of keywords of        *)
(* get_sector_from_name and of is_financials that occur in the lower-cased *)
(* name as substrings.                                                     *)
(***************************************************************************)
FINANCIALS_NAMES == {"bajaj holdings"}
FINANCIALS_SYMBOLS == {"bajajhldng"}

industry_keywords ==
  << <<"IT", {"tech", "software", "infotech", "systems", "solutions", "technologies"}>>,
     <<"Banking", {"bank", "finance", "nbfc", "financial", "capital", "securities"}>>,
     <<"Pharma", {"pharma", "drug", "biotech", "healthcare", "medical", "lab"}>>,
     <<"Manufacturing", {"industries", "manufacturing", "steel", "cement", "chemicals"}>>,
     <<"Telecom", {"telecom", "communications", "wireless", "broadband"}>>,
     <<"RealEstate", {"realty", "properties", "construction", "builders"}>>,
     <<"FMCG", {"consumer", "foods", "beverages", "fmcg"}>>,
     <<"Auto", {"auto", "motors", "vehicles", "automotive"}>>,
     <<"Energy", {"power", "energy", "oil", "gas", "petroleum"}>> >>

\* first sector, in dictionary order, one of whose keywords is in the name
get_sector_from_name(name) ==
  LET hits == {i \in 1..Len(industry_keywords) : industry_keywords[i][2] \cap name.kw # {}}
  IN  IF hits = {} THEN "General"
      ELSE industry_keywords[CHOOSE i \in hits : \A j \in hits : i <= j][1]

FinancialSectorIds_none == {}

\* the sector ids whose lower-cased text contains one of 'bank', 'nbfc',
\* 'finance', 'financial', 'insurance', 'hfc', 'housing finance', 'brokerage'
FinancialSectorIds == {"Banking"}

name_heuristic_keywords ==
  {" bank", "bank ", "nbfc", "finance", "finserv", "fin. ", "fintech", "lending",
   "microfinance", "nbfcs", "housing finance", "hfc", "insurance", "mfi"}

\* the symbol column is created from the name column when the file has none
is_financials(row) ==
  \/ row.name.id \in FINANCIALS_SYMBOLS
  \/ row.name.id \in FINANCIALS_NAMES
  \/ get_sector_from_name(row.name) \in FinancialSectorIds
  \/ row.name.kw \cap name_heuristic_keywords # {}

(***************************************************************************)
(* DisqualificationGate: should_disqualify.                                *)
(***************************************************************************)
valid_modes == {"financials_only_off", "global_off", "global_on"}

fcf_gate_always(is_fin, fcf_dq_mode) == TRUE

\* (is_fin and apply_fcf_dq_for_fin) or (not is_fin and apply_fcf_dq_for_nonfin)
fcf_gate_open(is_fin, fcf_dq_mode) ==
  LET apply_fcf_dq_for_fin == (fcf_dq_mode = "global_on")
      apply_fcf_dq_for_nonfin == (fcf_dq_mode \in {"financials_only_off", "global_on"})
  IN  (is_fin /\ apply_fcf_dq_for_fin) \/ (~is_fin /\ apply_fcf_dq_for_nonfin)

dq_massive_burn_lenient(row) == Has(row, "fcf") /\ row.m["fcf"] < U(-1000)

\* lines 323-326
dq_massive_burn(row) == Has(row, "fcf") /\ row.m["fcf"] < U(-500)

dq_extreme_pe_lenient(row) == Has(row, "pe_ratio") /\ row.m["pe_ratio"] > U(1000)

dq_extreme_pe(row) == Has(row, "pe_ratio") /\ row.m["pe_ratio"] > U(100)

dq_absurd_pe(row) == Has(row, "pe_ratio") /\ row.m["pe_ratio"] > U(500)

dq_bankruptcy_lenient(row) ==
  /\ Has(row, "fcf") /\ Has(row, "debt_equity")
  /\ row.m["fcf"] < U(-100) /\ row.m["debt_equity"] > 500

dq_bankruptcy(row) ==
  /\ Has(row, "fcf") /\ Has(row, "debt_equity")
  /\ row.m["fcf"] < U(-100) /\ row.m["debt_equity"] > 200

dq_negative_roe_lenient(row) == Has(row, "roe") /\ row.m["roe"] < U(-5)

dq_negative_roe(row) == Has(row, "roe") /\ row.m["roe"] < 0

\* fcf_yield = fcf / market_cap * 100 < 0.5, i.e. 200 * fcf < market_cap
dq_minimal_fcf(row) ==
  /\ Has(row, "fcf") /\ Has(row, "market_cap")
  /\ 0 < row.m["fcf"] /\ row.m["fcf"] < U(10) /\ row.m["market_cap"] > U(1000)
  /\ 200 * row.m["fcf"] < row.m["market_cap"]

dq_volatility(row) ==
  /\ Has(row, "return_1yr") /\ Has(row, "fcf") /\ Has(row, "roe")
  /\ Abs(row.m["return_1yr"]) > U(2000) /\ row.m["fcf"] < 0 /\ row.m["roe"] < U(15)

\* negative ROE looked at first
should_disqualify_roe_first(row, fcf_dq_mode) ==
  LET gate == fcf_gate_open(is_financials(row), fcf_dq_mode)
  IN  IF dq_negative_roe(row)
        THEN [dq |-> TRUE, reason |-> "Negative ROE"]
      ELSE IF dq_massive_burn(row) /\ gate
        THEN [dq |-> TRUE, reason |-> "Massive cash burn"]
      ELSE IF dq_extreme_pe(row)
        THEN [dq |-> TRUE, reason |-> "Extreme P/E ratio"]
      ELSE IF dq_bankruptcy(row) /\ gate
        THEN [dq |-> TRUE, reason |-> "Negative FCF with very high debt (bankruptcy risk)"]
      ELSE IF dq_minimal_fcf(row) /\ gate
        THEN [dq |-> TRUE, reason |-> "Minimal FCF"]
      ELSE IF dq_volatility(row)
        THEN [dq |-> TRUE, reason |-> "Extreme volatility with poor fundamentals (speculative)"]
      ELSE [dq |-> FALSE, reason |-> ""]

\* the reason strings, without the formatted numbers
should_disqualify(row, fcf_dq_mode) ==
  LET gate == fcf_gate_open(is_financials(row), fcf_dq_mode)
  IN  IF dq_massive_burn(row) /\ gate
        THEN [dq |-> TRUE, reason |-> "Massive cash burn"]
      ELSE IF dq_extreme_pe(row)
        THEN [dq |-> TRUE, reason |-> "Extreme P/E ratio"]
      ELSE IF dq_absurd_pe(row)
        THEN [dq |-> TRUE, reason |-> "Absurd P/E ratio"]
      ELSE IF dq_bankruptcy(row) /\ gate
        THEN [dq |-> TRUE, reason |-> "Negative FCF with very high debt (bankruptcy risk)"]
      ELSE IF dq_negative_roe(row)
        THEN [dq |-> TRUE, reason |-> "Negative ROE"]
      ELSE IF dq_minimal_fcf(row) /\ gate
        THEN [dq |-> TRUE, reason |-> "Minimal FCF"]
      ELSE IF dq_volatility(row)
        THEN [dq |-> TRUE, reason |-> "Extreme volatility with poor fundamentals (speculative)"]
      ELSE [dq |-> FALSE, reason |-> ""]

(***************************************************************************)
(* RiskPenaltyCalculator: calculate_risk_penalties.  A penalty mapping is  *)
(* a function from the reasons that fired to hundredths.                   *)
(***************************************************************************)
\* the dict built from a set of <<reason, amount>> pairs with distinct reasons
DictOf(pairs) == [k \in {p[1] : p \in pairs} |-> (CHOOSE p \in pairs : p[1] = k)[2]]

RECURSIVE SumOver(_, _)
SumOver(f, keys) ==
  IF keys = {} THEN 0
  ELSE LET k == CHOOSE x \in keys : TRUE IN f[k] + SumOver(f, keys \ {k})

\* sum(penalties.values())
SumValues(f) == SumOver(f, DOMAIN f)

negative_fcf_penalty_flat(is_fin) == 40

negative_fcf_penalty(is_fin) == IF ~is_fin THEN 40 ELSE 10

red_flags_no_debt(row) ==
  LET is_fin == is_financials(row)
  IN  (IF Get(row, "roe", U(100)) < U(10) THEN {"low_roe"} ELSE {})
      \cup (IF Get(row, "profit_growth_3yr", U(100)) < 0 THEN {"negative_growth"} ELSE {})
      \cup (IF ~is_fin /\ Get(row, "fcf", U(1000)) < U(100) /\ Get(row, "market_cap", 0) > U(1000)
              THEN {"low_fcf"} ELSE {})

\* the four red flags of the compound penalty
red_flags(row) ==
  LET is_fin == is_financials(row)
  IN  (IF Get(row, "roe", U(100)) < U(10) THEN {"low_roe"} ELSE {})
      \cup (IF Get(row, "profit_growth_3yr", U(100)) < 0 THEN {"negative_growth"} ELSE {})
      \cup (IF ~is_fin /\ Get(row, "fcf", U(1000)) < U(100) /\ Get(row, "market_cap", 0) > U(1000)
              THEN {"low_fcf"} ELSE {})
      \cup (IF Get(row, "debt_equity", 0) > 100 THEN {"high_debt"} ELSE {})

calculate_risk_penalties(row, fcf_dq_mode) ==
  LET is_fin == is_financials(row)
      fcf == row.m["fcf"]
      pe == row.m["pe_ratio"]
      de == row.m["debt_equity"]
      roe == row.m["roe"]
      roce == row.m["roce"]
      nflags == Cardinality(red_flags(row))
      p_fcf == IF Has(row, "fcf") /\ fcf < 0
                 THEN {<<"negative_fcf", negative_fcf_penalty(is_fin)>>} ELSE {}
      p_pe == IF Has(row, "pe_ratio") /\ pe > U(100) THEN {<<"extreme_pe", 25>>}
              ELSE IF Has(row, "pe_ratio") /\ pe > U(50) THEN {<<"high_pe", 15>>}
              ELSE {}
      p_debt == IF ~Has(row, "debt_equity") THEN {}
                ELSE IF ~is_fin
                  THEN (IF de > 150 THEN {<<"high_debt", 20>>}
                        ELSE IF de > 100 THEN {<<"moderate_debt", 10>>} ELSE {})
                  ELSE (IF de > 500 THEN {<<"high_debt", 15>>}
                        ELSE IF de > 300 THEN {<<"moderate_debt", 5>>} ELSE {})
      p_roe == IF ~Has(row, "roe") THEN {}
               ELSE IF roe < U(8) THEN {<<"very_low_roe", 30>>}
               ELSE IF roe < U(10) THEN {<<"low_roe", 20>>}
               ELSE IF roe < U(12) THEN {<<"moderate_roe", 10>>}
               ELSE {}
      p_roce == IF ~Has(row, "roce") THEN {}
                ELSE IF roce < U(12) THEN {<<"low_roce", 10>>}
                ELSE IF roce < U(15) THEN {<<"moderate_roce", 5>>}
                ELSE {}
      p_peg == IF Has(row, "peg") /\ row.m["peg"] > U(2) THEN {<<"high_peg", 10>>} ELSE {}
      p_lowroe == IF Has(row, "roe") /\ Has(row, "fcf") /\ Has(row, "profit_growth_3yr")
                     /\ roe < U(8) /\ row.m["profit_growth_3yr"] < 0
                    THEN (IF fcf > U(1000) /\ Get(row, "debt_equity", 100) < 30
                            THEN {<<"low_roe_high_fcf", 20>>}
                            ELSE {<<"low_roe_negative_growth", 50>>})
                    ELSE {}
      p_lowfcf == IF Has(row, "fcf") /\ Has(row, "market_cap")
                     /\ ~is_fin /\ 0 < fcf /\ fcf < U(100) /\ row.m["market_cap"] > U(1000)
                    THEN {<<"low_fcf_relative", 10>>} ELSE {}
      p_modpe == IF Has(row, "pe_ratio") /\ U(25) < pe /\ pe <= U(50)
                   THEN {<<"moderate_pe", 5>>} ELSE {}
      p_flags == IF nflags >= 2 THEN {<<"multiple_red_flags", 10 * nflags>>} ELSE {}
      p_vol == IF Has(row, "return_1yr") /\ Abs(row.m["return_1yr"]) > U(1000)
                 THEN {<<"extreme_volatility", 20>>}
               ELSE IF Has(row, "return_1yr") /\ Abs(row.m["return_1yr"]) > U(500)
                 THEN {<<"high_volatility", 10>>}
               ELSE {}
  IN  DictOf(p_fcf \cup p_pe \cup p_debt \cup p_roe \cup p_roce \cup p_peg \cup p_lowroe
             \cup p_lowfcf \cup p_modpe \cup p_flags \cup p_vol)

penalty_factor_uncapped(total_penalty) == 100 - total_penalty

\* (1 - min(total_penalty, 0.6)), in hundredths
penalty_factor(total_penalty) == 100 - Min2(total_penalty, 60)

(***************************************************************************)
(* TierClassifier: classify_investment_tier.                               *)
(***************************************************************************)
classify_investment_tier_loose(row) ==
  LET roe == Get(row, "roe", 0)
      roce == Get(row, "roce", 0)
      pe_ratio == Get(row, "pe_ratio", U(999))
      fcf == Get(row, "fcf", 0)
      debt_equity == Get(row, "debt_equity", U(999))
      profit_growth == Get(row, "profit_growth_3yr", 0)
  IN  IF roe > U(20) /\ roce > U(20) /\ pe_ratio < U(25) /\ fcf > U(500) /\ debt_equity < 50
        THEN 1
      ELSE IF roe > U(15) /\ roce > U(15) /\ pe_ratio < U(35) /\ fcf > U(100)
        THEN 2
      ELSE IF (roe > U(12) \/ (fcf > U(1000) /\ profit_growth > 0)) /\ debt_equity < 150
        THEN 3
      ELSE 4

classify_investment_tier(row) ==
  LET roe == Get(row, "roe", 0)
      roce == Get(row, "roce", 0)
      pe_ratio == Get(row, "pe_ratio", U(999))
      fcf == Get(row, "fcf", 0)
      debt_equity == Get(row, "debt_equity", U(999))
      profit_growth == Get(row, "profit_growth_3yr", 0)
  IN  IF roe > U(20) /\ roce > U(20) /\ pe_ratio < U(25) /\ fcf > U(500) /\ debt_equity < 50
        THEN 1
      ELSE IF roe > U(15) /\ roce > U(15) /\ pe_ratio < U(35) /\ fcf > U(100)
              /\ debt_equity < 100
        THEN 2
      ELSE IF (roe > U(12) \/ (fcf > U(1000) /\ profit_growth > 0)) /\ debt_equity < 150
        THEN 3
      ELSE 4

tier_name(tier) ==
  CASE tier = 1 -> "CORE PORTFOLIO"
    [] tier = 2 -> "QUALITY ADDITIONS"
    [] tier = 3 -> "SPECIALIZED PLAYS"
    [] OTHER -> "AVOID"

(***************************************************************************)
(* QualityAssessors.                                                       *)
(***************************************************************************)
clamp_none(lo, hi, x) == x

\* max(lo, min(hi, x)): lines 200, 394 and 448
clamp(lo, hi, x) == Max2(lo, Min2(hi, x))

\* thousandths, in [500, 1500]
assess_quality_score(row) ==
  LET roe == row.m["roe"]
      de == row.m["debt_equity"]
      red == (IF Has(row, "roe") /\ roe < U(5) THEN 1 ELSE 0)
             + (IF Has(row, "debt_equity") /\ de > 200 THEN 1 ELSE 0)
             + (IF Has(row, "fcf") /\ row.m["fcf"] < U(-100) THEN 1 ELSE 0)
      yellow == (IF Has(row, "roe") /\ U(5) <= roe /\ roe < U(12) THEN 1 ELSE 0)
                + (IF Has(row, "peg") /\ row.m["peg"] > U(2) THEN 1 ELSE 0)
                + (IF Has(row, "debt_equity") /\ 100 < de /\ de <= 150 THEN 1 ELSE 0)
      base == 100 - 15 * red - 5 * yellow
      \* 1 + min((roe - 10) / 40, 0.6), in 1/4000
      bonus == IF Has(row, "roe") /\ roe > U(10)
                 THEN 4000 + Min2(roe - U(10), 2400) ELSE 4000
      quality_score == (base * bonus) \div 400
  IN  clamp(500, 1500, quality_score)

\* hundredths, in [70, 120]
assess_cash_flow_quality(row) ==
  LET fcf == row.m["fcf"]
      pat == row.m["pat"]
      conv == IF Has(row, "pat") /\ pat > 0
                THEN (IF 10 * fcf > 8 * pat THEN 10
                      ELSE IF 10 * fcf > 5 * pat THEN 5 ELSE 0)
                ELSE 0
      steady == IF Has(row, "fcf_3yr") /\ Has(row, "fcf_5yr")
                   /\ row.m["fcf_3yr"] > 0 /\ row.m["fcf_5yr"] > 0
                  THEN 5 ELSE 0
      cash == IF Has(row, "fcf") /\ fcf > 0 THEN 5 + conv + steady ELSE 0 - 10
      turnover == IF Has(row, "asset_turnover") /\ row.m["asset_turnover"] > 100
                    THEN 5 ELSE 0
  IN  clamp(70, 120, 100 + cash + turnover)

\* [score, warnings]: score in hundredths, in [60, 130]
assess_valuation_reasonableness(row) ==
  LET pe == row.m["pe_ratio"]
      growth == row.m["profit_growth_3yr"]
      roe == row.m["roe"]
      fcf == row.m["fcf"]
      mcap == row.m["market_cap"]
      \* implied_peg = pe_ratio / profit_growth_3yr
      peg == IF Has(row, "pe_ratio") /\ Has(row, "profit_growth_3yr") /\ growth > 0
               THEN (IF 2 * pe < growth THEN <<15, <<>> >>
                     ELSE IF pe < growth THEN <<10, <<>> >>
                     ELSE IF pe > 3 * growth
                       THEN <<0 - 20, <<"High valuation vs growth (PEG > 3)">> >>
                     ELSE IF pe > 2 * growth
                       THEN <<0 - 10, <<"Elevated valuation vs growth (PEG > 2)">> >>
                     ELSE <<0, <<>> >>)
               ELSE <<0, <<>> >>
      premium == IF Has(row, "pe_ratio") /\ Has(row, "roe")
                   THEN (IF roe > U(25) /\ pe < U(30) THEN <<10, <<>> >>
                         ELSE IF roe < U(15) /\ pe > U(25)
                           THEN <<0 - 15, <<"High P/E without strong ROE">> >>
                         ELSE <<0, <<>> >>)
                   ELSE <<0, <<>> >>
      \* fcf_yield = fcf / market_cap * 100
      yield == IF Has(row, "fcf") /\ Has(row, "market_cap") /\ mcap > 0
                 THEN (IF 100 * fcf > 8 * mcap THEN <<10, <<>> >>
                       ELSE IF 100 * fcf > 5 * mcap THEN <<5, <<>> >>
                       ELSE IF fcf < 0 THEN <<0 - 15, <<"Negative FCF yield">> >>
                       ELSE <<0, <<>> >>)
                 ELSE <<0, <<>> >>
      sales == IF Has(row, "cmp_sales") /\ Has(row, "opm")
                  /\ row.m["cmp_sales"] > U(10) /\ row.m["opm"] < U(15)
                 THEN <<0 - 10, <<"High Price/Sales without strong margins">> >>
                 ELSE <<0, <<>> >>
      score == 100 + peg[1] + premium[1] + yield[1] + sales[1]
  IN  [score |-> clamp(60, 130, score),
       warnings |-> peg[2] \o premium[2] \o yield[2] \o sales[2]]

(***************************************************************************)
(* PhilosophyRegistry: PHILOSOPHIES, weights in hundredths.                *)
(***************************************************************************)
PHILOSOPHIES ==
  [buffett |-> DictOf({<<"fcf", 28>>, <<"roe", 20>>, <<"roce", 16>>, <<"pe_ratio", 8>>,
                       <<"debt_equity", 14>>, <<"opm", 10>>, <<"profit_growth_3yr", 3>>,
                       <<"sales_growth_5yr", 1>>}),
   lynch |-> DictOf({<<"peg", 25>>, <<"profit_growth_3yr", 18>>, <<"eps_growth_3yr", 15>>,
                     <<"roe", 12>>, <<"fcf", 12>>, <<"roce", 8>>, <<"debt_equity", 8>>,
                     <<"pe_ratio", 2>>}),
   growth |-> DictOf({<<"profit_growth_5yr", 22>>, <<"sales_growth_5yr", 18>>,
                      <<"eps_growth_3yr", 15>>, <<"roce", 15>>, <<"fcf", 12>>,
                      <<"roe", 10>>, <<"opm", 8>>}),
   value |-> DictOf({<<"pe_ratio", 28>>, <<"debt_equity", 20>>, <<"fcf", 18>>,
                     <<"roe", 14>>, <<"roce", 12>>, <<"dividend_yield", 5>>,
                     <<"profit_growth_3yr", 3>>}),
   dividend |-> DictOf({<<"dividend_yield", 28>>, <<"fcf", 25>>, <<"roe", 15>>,
                        <<"debt_equity", 15>>, <<"roce", 10>>, <<"opm", 7>>}),
   quality |-> DictOf({<<"fcf", 30>>, <<"roe", 18>>, <<"roce", 15>>, <<"pe_ratio", 15>>,
                       <<"debt_equity", 12>>, <<"opm", 8>>, <<"profit_growth_3yr", 2>>})]

PhilosophyIds == DOMAIN PHILOSOPHIES

(***************************************************************************)
(* MetricTable and Normalizer.  A table (df) is a sequence of rows with    *)
(* the same columns; the index of a row is its position in the file.       *)
(***************************************************************************)
numeric_cols ==
  {"cmp", "market_cap", "pe_ratio", "roe", "roce", "sales_growth_3yr",
   "sales_growth_5yr", "sales", "pat", "profit_growth_3yr", "profit_growth_5yr",
   "fcf_3yr", "fcf_5yr", "fcf", "peg", "return_1yr", "return_3yr", "return_5yr",
   "asset_turnover", "cmp_sales", "eps", "eps_growth_3yr", "eps_growth_5yr",
   "debt_equity", "opm", "dividend_yield", "npm", "interest_coverage",
   "current_ratio", "pb_ratio", "ev_ebitda", "dividend_payout", "fcf_yield_inverse",
   "pledged_pct", "promoter_holding"}

inverse_metrics ==
  {"debt_equity", "pe_ratio", "peg", "cmp_sales", "pb_ratio", "ev_ebitda",
   "fcf_yield_inverse", "pledged_pct"}

Columns(df) == IF Len(df) = 0 THEN {} ELSE DOMAIN df[1].m

\* the positions of the column's cells that hold a number
Present(df, col) == {i \in 1..Len(df) : df[i].m[col] # NaN}

\* the k-th smallest of the values at positions I, counted with repetitions
KthSmallest(df, col, I, k) ==
  CHOOSE v \in {df[i].m[col] : i \in I} :
    /\ Cardinality({i \in I : df[i].m[col] < v}) < k
    /\ Cardinality({i \in I : df[i].m[col] <= v}) >= k

\* df[col].median(): NaN cells are skipped
Median(df, col) ==
  LET I == Present(df, col)
      n == Cardinality(I)
  IN  IF n % 2 = 1 THEN KthSmallest(df, col, I, (n + 1) \div 2)
      ELSE (KthSmallest(df, col, I, n \div 2) + KthSmallest(df, col, I, n \div 2 + 1)) \div 2

fill_value_zero(df, col) == 0

\* df[col].median() if not df[col].isna().all() else 0
fill_value(df, col) == IF Present(df, col) # {} THEN Median(df, col) ELSE 0

\* lines 718-724: every numeric column has its NaN cells filled;
\* df[col].fillna(fill_value, inplace=True) writes through to df (pandas before 3.0)
ConvertNumeric(df) ==
  [i \in 1..Len(df) |->
     [df[i] EXCEPT !.m = [c \in DOMAIN df[i].m |->
                            IF c \in numeric_cols /\ df[i].m[c] = NaN THEN fill_value(df, c)
                            ELSE df[i].m[c]]]]

ColMin(df, col) == CHOOSE v \in {df[i].m[col] : i \in Present(df, col)} :
                     \A i \in Present(df, col) : v <= df[i].m[col]
ColMax(df, col) == CHOOSE v \in {df[i].m[col] : i \in Present(df, col)} :
                     \A i \in Present(df, col) : v >= df[i].m[col]

\* the lower-is-better columns scored like the others
normalize_score_uninverted(value, min_val, max_val, inverse) ==
  IF value = NaN \/ max_val = min_val THEN 500
  ELSE LET normalized == ((value - min_val) * 1000) \div (max_val - min_val)
       IN  Max2(0, Min2(1000, normalized))

normalize_score_zero(value, min_val, max_val, inverse) ==
  IF value = NaN \/ max_val = min_val THEN 0
  ELSE LET normalized == IF inverse
                           THEN 1000 - ((value - min_val) * 1000) \div (max_val - min_val)
                           ELSE ((value - min_val) * 1000) \div (max_val - min_val)
       IN  Max2(0, Min2(1000, normalized))

\* tenths of a point, in [0, 1000]
normalize_score(value, min_val, max_val, inverse) ==
  IF value = NaN \/ max_val = min_val THEN 500
  ELSE LET normalized == IF inverse
                           THEN 1000 - ((value - min_val) * 1000) \div (max_val - min_val)
                           ELSE ((value - min_val) * 1000) \div (max_val - min_val)
       IN  Max2(0, Min2(1000, normalized))

\* the columns that get a normalized column: df[col].notna().any()
NormalizedColumns(df) == {c \in Columns(df) \cap numeric_cols : Present(df, c) # {}}

\* the bounds taken over the rows that are not disqualified
Normalize_survivors(df) ==
  LET not_disqualified(row) == ~should_disqualify(row, "financials_only_off").dq
      kept == IF SelectSeq(df, not_disqualified) = <<>> THEN df
              ELSE SelectSeq(df, not_disqualified)
  IN  [i \in 1..Len(df) |->
         [c \in NormalizedColumns(df) |->
            normalize_score(df[i].m[c], ColMin(kept, c), ColMax(kept, c),
                            c \in inverse_metrics)]]

\* lines 735-745: normalized_df, one mapping column -> score per row
Normalize(df) ==
  [i \in 1..Len(df) |->
     [c \in NormalizedColumns(df) |->
        normalize_score(df[i].m[c], ColMin(df, c), ColMax(df, c), c \in inverse_metrics)]]

(***************************************************************************)
(* Composite score: calculate_composite_score.                             *)
(***************************************************************************)
\* round(x, 1) of a number of thousandths, in tenths
RoundTenth(x) == (x + 50) \div 100

\* sum of normalized_df.loc[row.name, metric] * weight, in thousandths
WeightedSum(weights, norm_row) ==
  LET used == DOMAIN weights \cap DOMAIN norm_row
      terms == [k \in used |-> norm_row[k] * weights[k]]
  IN  SumValues(terms)

\* the score cut to one decimal instead of rounded
calculate_composite_score_floor(row, weights, norm_row, fcf_dq_mode) ==
  LET s0 == WeightedSum(weights, norm_row)
      s1 == (s0 * assess_quality_score(row)) \div 1000
      s2 == (s1 * assess_cash_flow_quality(row)) \div 100
      s3 == (s2 * assess_valuation_reasonableness(row).score) \div 100
      penalties == calculate_risk_penalties(row, fcf_dq_mode)
      total_penalty == SumValues(penalties)
      s4 == (s3 * penalty_factor(total_penalty)) \div 100
  IN  s4 \div 100

\* lines 453-478
calculate_composite_score(row, weights, norm_row, fcf_dq_mode) ==
  LET s0 == WeightedSum(weights, norm_row)
      s1 == (s0 * assess_quality_score(row)) \div 1000
      s2 == (s1 * assess_cash_flow_quality(row)) \div 100
      s3 == (s2 * assess_valuation_reasonableness(row).score) \div 100
      penalties == calculate_risk_penalties(row, fcf_dq_mode)
      total_penalty == SumValues(penalties)
      s4 == (s3 * penalty_factor(total_penalty)) \div 100
  IN  RoundTenth(s4)

(***************************************************************************)
(* SectorAdjuster: SECTOR_BENCHMARKS and adjust_score_for_sector.          *)
(* Thresholds are hundredths; None is a key the entry does not have.       *)
(***************************************************************************)
None == -1

Benchmark(roe, roce, de, opm, debt_mult, fcf_mult) ==
  [roe_threshold |-> roe, roce_threshold |-> roce, debt_equity_norm |-> de,
   opm_norm |-> opm, debt_penalty_multiplier |-> debt_mult,
   fcf_weight_multiplier |-> fcf_mult]

SECTOR_BENCHMARKS ==
  [IT            |-> Benchmark(U(20), U(25), 50, U(20), 150, 130),
   Banking       |-> Benchmark(U(12), None, 500, U(40), 10, None),
   Pharma        |-> Benchmark(U(15), U(18), 80, U(20), None, None),
   Manufacturing |-> Benchmark(U(12), U(15), 150, U(10), None, None),
   Telecom       |-> Benchmark(U(8), U(10), 250, U(30), None, None),
   RealEstate    |-> Benchmark(U(8), U(10), 200, U(25), None, None),
   FMCG          |-> Benchmark(U(18), U(25), 50, U(15), None, None),
   Auto          |-> Benchmark(U(12), U(15), 120, U(8), None, None),
   Energy        |-> Benchmark(U(10), U(12), 200, U(12), None, None),
   Healthcare    |-> Benchmark(U(15), U(18), 100, U(18), None, None)]

\* [adjusted_score, sector_adjustment, sector_insights, penalties]:
\* adjusted_score in tenths, sector_adjustment in tenths of a percent,
\* penalties the mapping as the call leaves it (ten-thousandths where rescaled)
adjust_score_for_sector(base_score, company_data, sector, penalties) ==
  IF sector \notin DOMAIN SECTOR_BENCHMARKS
    THEN [adjusted_score |-> base_score, sector_adjustment |-> 0,
          sector_insights |-> <<>>, penalties |-> penalties]
  ELSE
    LET benchmarks == SECTOR_BENCHMARKS[sector]
        row == company_data
        debt_case == Has(row, "debt_equity") /\ benchmarks.debt_penalty_multiplier # None
        within == debt_case /\ row.m["debt_equity"] <= benchmarks.debt_equity_norm
        rescale == within /\ "high_debt" \in DOMAIN penalties
        debt_insight == IF rescale THEN <<"Debt within sector norms">>
                        ELSE IF debt_case /\ ~within THEN <<"Debt above sector norm">>
                        ELSE <<>>
        fcf_case == Has(row, "fcf") /\ benchmarks.fcf_weight_multiplier # None
                    /\ row.m["fcf"] > 0
        \* (fcf_weight_multiplier - 1.0) * 0.05, in ten-thousandths
        fcf_bonus == IF fcf_case THEN (benchmarks.fcf_weight_multiplier - 100) * 5 ELSE 0
        fcf_insight == IF fcf_case THEN <<"Strong FCF valued highly">> ELSE <<>>
        roe_threshold == benchmarks.roe_threshold
        roe_above == Has(row, "roe") /\ row.m["roe"] > roe_threshold
        \* min((roe - roe_threshold) / roe_threshold * 0.1, 0.15), in ten-thousandths
        roe_premium == IF roe_above
                         THEN Min2(((row.m["roe"] - roe_threshold) * 1000) \div roe_threshold,
                                   1500)
                         ELSE 0
        roe_insight == IF roe_above THEN <<"ROE exceeds sector threshold">>
                       ELSE IF Has(row, "roe") /\ 10 * row.m["roe"] < 7 * roe_threshold
                         THEN <<"ROE below sector expectations">>
                       ELSE <<>>
        roce_insight == IF Has(row, "roce") /\ benchmarks.roce_threshold # None
                           /\ row.m["roce"] > benchmarks.roce_threshold
                          THEN <<"ROCE exceeds sector threshold">> ELSE <<>>
        opm_above == Has(row, "opm") /\ 10 * row.m["opm"] > 12 * benchmarks.opm_norm
        opm_bonus == IF opm_above THEN 500 ELSE 0
        opm_insight == IF opm_above THEN <<"Exceptional margins for sector">>
                       ELSE IF Has(row, "opm") /\ 10 * row.m["opm"] < 6 * benchmarks.opm_norm
                         THEN <<"Margins below sector average">>
                       ELSE <<>>
        bank_insight == IF sector = "Banking" /\ benchmarks.roce_threshold = None
                          THEN <<"ROCE not applicable for banking sector">> ELSE <<>>
        adjustment_multiplier == 10000 + fcf_bonus + roe_premium + opm_bonus
    IN  [adjusted_score |-> (base_score * adjustment_multiplier + 5000) \div 10000,
         sector_adjustment |-> (adjustment_multiplier - 10000 + 5) \div 10,
         sector_insights |-> debt_insight \o fcf_insight \o roe_insight \o roce_insight
                             \o opm_insight \o bank_insight,
         penalties |-> IF rescale
                         THEN [k \in DOMAIN penalties |->
                                 IF k = "high_debt"
                                   THEN penalties[k] * benchmarks.debt_penalty_multiplier
                                   ELSE penalties[k] * 100]
                         ELSE penalties]

(***************************************************************************)
(* Inputs of the model: company names, rows and uploaded tables.           *)
(***************************************************************************)
MaxRows == 3

AlphaTools == [id |-> "alpha tools", kw |-> {}]
BetaWorks == [id |-> "beta works", kw |-> {}]
GammaTraders == [id |-> "gamma traders", kw |-> {}]
EpsilonMart == [id |-> "epsilon mart", kw |-> {}]
DeltaBank == [id |-> "delta bank", kw |-> {"bank", " bank"}]
OmegaInfotech == [id |-> "omega infotech", kw |-> {"tech", "infotech"}]
StarInsurance == [id |-> "star insurance", kw |-> {"insurance"}]

\* the columns of the uploaded files: the five every stage reads, or those and
\* the other columns the philosophies and the row functions read
CoreCols == {"roe", "roce", "pe_ratio", "fcf", "debt_equity"}
FileCols ==
  CoreCols \cup
  {"market_cap", "sales_growth_5yr", "pat", "profit_growth_3yr", "profit_growth_5yr",
   "fcf_3yr", "fcf_5yr", "peg", "return_1yr", "asset_turnover", "cmp_sales",
   "eps_growth_3yr", "opm", "dividend_yield"}
ColSets == {CoreCols, FileCols}

\* a row of an uploaded file with every column; the five core values first
FileRow(name, roe, roce, pe, fcf, de, rest) ==
  [name |-> name,
   m |-> ("roe" :> roe) @@ ("roce" :> roce) @@ ("pe_ratio" :> pe) @@ ("fcf" :> fcf)
         @@ ("debt_equity" :> de) @@ rest]

RowPool ==
  { FileRow(AlphaTools, U(25), U(22), U(18), U(800), 30,
      [c \in FileCols \ CoreCols |->
         CASE c = "market_cap" -> U(5000) [] c = "profit_growth_3yr" -> U(20)
           [] c = "opm" -> U(22) [] c = "return_1yr" -> U(30) [] c = "peg" -> 80
           [] c = "pat" -> U(900) [] c = "sales_growth_5yr" -> U(12)
           [] c = "fcf_3yr" -> U(700) [] c = "fcf_5yr" -> U(600)
           [] c = "asset_turnover" -> 120 [] c = "cmp_sales" -> U(4)
           [] c = "eps_growth_3yr" -> U(18) [] c = "profit_growth_5yr" -> U(16)
           [] c = "dividend_yield" -> 120]),
    FileRow(BetaWorks, U(9), U(8), U(40), U(-600), 220,
      [c \in FileCols \ CoreCols |->
         CASE c = "market_cap" -> U(1500) [] c = "profit_growth_3yr" -> U(-10)
           [] c = "opm" -> U(8) [] c = "return_1yr" -> U(-40) [] c = "peg" -> U(3)
           [] c = "pat" -> U(40) [] c = "sales_growth_5yr" -> U(2)
           [] c = "fcf_3yr" -> U(-300) [] c = "fcf_5yr" -> U(-100)
           [] c = "asset_turnover" -> 60 [] c = "cmp_sales" -> U(12)
           [] c = "eps_growth_3yr" -> U(-6) [] c = "profit_growth_5yr" -> U(-4)
           [] c = "dividend_yield" -> 0]),
    FileRow(GammaTraders, U(16), U(17), U(30), U(150), 80,
      [c \in FileCols \ CoreCols |->
         CASE c = "market_cap" -> NaN [] c = "profit_growth_3yr" -> U(8)
           [] c = "opm" -> U(14) [] c = "return_1yr" -> U(10) [] c = "peg" -> NaN
           [] c = "pat" -> U(250) [] c = "sales_growth_5yr" -> U(8)
           [] c = "fcf_3yr" -> U(100) [] c = "fcf_5yr" -> U(-20)
           [] c = "asset_turnover" -> 100 [] c = "cmp_sales" -> U(2)
           [] c = "eps_growth_3yr" -> U(6) [] c = "profit_growth_5yr" -> NaN
           [] c = "dividend_yield" -> 240]),
    FileRow(DeltaBank, U(14), NaN, U(12), U(-600), 600,
      [c \in FileCols \ CoreCols |->
         CASE c = "market_cap" -> U(4000) [] c = "profit_growth_3yr" -> U(12)
           [] c = "opm" -> U(50) [] c = "return_1yr" -> U(20) [] c = "peg" -> 100
           [] c = "pat" -> U(600) [] c = "sales_growth_5yr" -> U(10)
           [] c = "fcf_3yr" -> U(-400) [] c = "fcf_5yr" -> U(-200)
           [] c = "asset_turnover" -> NaN [] c = "cmp_sales" -> U(3)
           [] c = "eps_growth_3yr" -> U(10) [] c = "profit_growth_5yr" -> U(10)
           [] c = "dividend_yield" -> 80]),
    FileRow(OmegaInfotech, NaN, U(30), NaN, U(6), 20,
      [c \in FileCols \ CoreCols |->
         CASE c = "market_cap" -> U(2000) [] c = "profit_growth_3yr" -> NaN
           [] c = "opm" -> U(26) [] c = "return_1yr" -> U(60) [] c = "peg" -> 140
           [] c = "pat" -> U(20) [] c = "sales_growth_5yr" -> U(30)
           [] c = "fcf_3yr" -> U(4) [] c = "fcf_5yr" -> U(2)
           [] c = "asset_turnover" -> 140 [] c = "cmp_sales" -> U(14)
           [] c = "eps_growth_3yr" -> U(30) [] c = "profit_growth_5yr" -> U(28)
           [] c = "dividend_yield" -> NaN]),
    FileRow(StarInsurance, U(-4), U(6), U(120), NaN, 120,
      [c \in FileCols \ CoreCols |->
         CASE c = "market_cap" -> U(800) [] c = "profit_growth_3yr" -> U(-20)
           [] c = "opm" -> NaN [] c = "return_1yr" -> U(2500) [] c = "peg" -> U(4)
           [] c = "pat" -> U(-30) [] c = "sales_growth_5yr" -> NaN
           [] c = "fcf_3yr" -> NaN [] c = "fcf_5yr" -> U(10)
           [] c = "asset_turnover" -> 40 [] c = "cmp_sales" -> NaN
           [] c = "eps_growth_3yr" -> NaN [] c = "profit_growth_5yr" -> U(-12)
           [] c = "dividend_yield" -> 0]) }

\* the row as a file with columns cols holds it
Restrict(row, cols) == [name |-> row.name, m |-> [c \in cols |-> row.m[c]]]

\* a complete row that ranks below 'alpha tools' in a table with 'beta works'
\* and above it without
EpsilonMartRow ==
  FileRow(EpsilonMart, U(12), U(25), U(15), U(1000), 20, <<>>)

\* the three core-column rows alpha, epsilon, beta in any order
BoundsTables ==
  LET rows == {r \in RowPool : r.name \in {AlphaTools, BetaWorks}} \cup {EpsilonMartRow}
  IN  { [i \in 1..3 |-> Restrict(t[i], CoreCols)] :
        t \in {u \in [1..3 -> rows] : \A i, j \in 1..3 : i # j => u[i] # u[j]} }

\* the uploaded tables: 1..MaxRows different pool rows, in any order, under one
\* of the column sets
Tables ==
  UNION { { [i \in 1..n |-> Restrict(t[i], cols)] :
            t \in {u \in [1..n -> RowPool] : \A i, j \in 1..n : i # j => u[i] # u[j]} } :
          n \in 1..MaxRows, cols \in ColSets }
  \cup BoundsTables

PhilosophyInputs == PhilosophyIds \cup {"graham"}
ModeInputs == valid_modes \cup {"off"}

(***************************************************************************)
(* RankingOrchestrator: the stages of analyze_rankings as operators on the *)
(* table.  With(row, cols) is the row with the columns cols added or       *)
(* overwritten.                                                            *)
(***************************************************************************)
With(row, cols) == cols @@ row

MapRows(df, F(_)) == [i \in 1..Len(df) |-> F(df[i])]

config_error_lenient(philosophy, fcfDQMode) == ""

\* lines 577-582: the detail of the HTTP 400, "" when the request is valid
config_error(philosophy, fcfDQMode) ==
  IF philosophy \notin DOMAIN PHILOSOPHIES THEN "Invalid philosophy"
  ELSE IF fcfDQMode \notin valid_modes THEN "Invalid fcfDQMode"
  ELSE ""

\* lines 584-697: the rows of the file, indexed by position; symbol from name
ReadRows(file) ==
  [i \in 1..Len(file) |->
     [idx |-> i, name |-> file[i].name, symbol |-> file[i].name.id, m |-> file[i].m]]

\* lines 749-769
ScoreRows(df, normalized_df, philosophy, fcfDQMode) ==
  LET Scored(row) ==
        With(row,
          [composite_score |-> calculate_composite_score(row, PHILOSOPHIES[philosophy],
                                 normalized_df[row.idx], fcfDQMode),
           buffett_score |-> calculate_composite_score(row, PHILOSOPHIES["buffett"],
                               normalized_df[row.idx], fcfDQMode),
           lynch_score |-> calculate_composite_score(row, PHILOSOPHIES["lynch"],
                             normalized_df[row.idx], fcfDQMode),
           growth_score |-> calculate_composite_score(row, PHILOSOPHIES["growth"],
                              normalized_df[row.idx], fcfDQMode)])
  IN  MapRows(df, Scored)

\* lines 774-783: the disqualified flag and reason of every row
MarkDisqualified(df, fcfDQMode) ==
  LET Marked(row) ==
        LET verdict == should_disqualify(row, fcfDQMode)
        IN  With(row, [disqualified |-> verdict.dq,
                       disqualification_reason |-> verdict.reason])
  IN  MapRows(df, Marked)

\* line 782: (name, reason) of the disqualified rows, in table order
DisqualifiedCompanies(marked) ==
  LET Dq(row) == row.disqualified
      Entry(row) == [name |-> row.name.id, reason |-> row.disqualification_reason]
  IN  MapRows(SelectSeq(marked, Dq), Entry)

keep_row_all(row) == TRUE

\* line 787: df[df['disqualified'] == False]
keep_row(row) == row.disqualified = FALSE

FilterDisqualified(marked) == SelectSeq(marked, keep_row)

\* lines 790-820: warnings, multipliers, sector and the sector-adjusted score
AdjustRows(df, fcfDQMode) ==
  LET Adjusted(row) ==
        LET valuation == assess_valuation_reasonableness(row)
            sector == get_sector_from_name(row.name)
            penalties == calculate_risk_penalties(row, fcfDQMode)
            result == adjust_score_for_sector(row.composite_score, row, sector, penalties)
        IN  With(row,
              [risk_warnings |-> DOMAIN calculate_risk_penalties(row, fcfDQMode),
               quality_score |-> assess_quality_score(row),
               cf_quality_score |-> assess_cash_flow_quality(row),
               valuation_score |-> valuation.score,
               valuation_warnings |-> valuation.warnings,
               sector |-> sector,
               composite_score |-> result.adjusted_score,
               sector_adjustment |-> result.sector_adjustment,
               sector_insights |-> result.sector_insights])
  IN  MapRows(df, Adjusted)

ClassifyRows_by_score(df) ==
  LET Classified(row) ==
        LET tier == IF row.composite_score < 300 THEN 4
                    ELSE classify_investment_tier(row)
        IN  With(row, [investment_tier |-> tier, investment_tier_name |-> tier_name(tier)])
  IN  MapRows(df, Classified)

\* classify_all_companies, lines 250-253
ClassifyRows(df) ==
  LET Classified(row) ==
        With(row, [investment_tier |-> classify_investment_tier(row),
                   investment_tier_name |-> tier_name(classify_investment_tier(row))])
  IN  MapRows(df, Classified)

\* get_tier_summary: count and the first ten names of every tier
get_tier_summary(df) ==
  [tier \in 1..4 |->
     LET InTier(row) == row.investment_tier = tier
         Name(row) == row.name.id
         tier_df == SelectSeq(df, InTier)
     IN  [count |-> Len(tier_df),
          companies |-> MapRows(SubSeq(tier_df, 1, Min2(10, Len(tier_df))), Name)]]

\* the columns get_tier_summary averages over every non-empty tier
TierSummaryColumns == {"roe", "roce", "pe_ratio", "fcf", "debt_equity"}

\* classify_all_companies and get_tier_summary raise KeyError: on a table
\* with no row (tier_data[0]) and on a table without one of the averaged columns
TierStageRaises(df) == Len(df) = 0 \/ ~(TierSummaryColumns \subseteq Columns(df))

\* sort_values('composite_score', ascending=False) with the default quicksort:
\* every descending order of the rows; equal scores may come in any order
SortedOrders(df) ==
  {p \in [1..Len(df) -> 1..Len(df)] :
     /\ \A i, j \in 1..Len(df) : i # j => p[i] # p[j]
     /\ \A i \in 1..Len(df) - 1 : df[p[i]].composite_score >= df[p[i + 1]].composite_score}

\* the column the sort reads
ScoreColumn(df) == [i \in 1..Len(df) |-> df[i].composite_score]

sort_values_random(df, memo) == SortedOrders(df)

\* the orders sort_values can give: the sort is a function of the column it
\* reads, so a column sorted before (memo) comes out in the same order again
sort_values(df, memo) ==
  IF ScoreColumn(df) \in DOMAIN memo THEN {memo[ScoreColumn(df)]} ELSE SortedOrders(df)

\* memo with the order p of df's score column
Sorted(memo, df, p) == (ScoreColumn(df) :> p) @@ memo

\* the rows ranked in the order of the table, not in the order p
RankRows_unsorted(df, p) == [i \in 1..Len(df) |-> With(df[i], [rank |-> i])]

\* lines 918-919: the rows in the order p, ranked 1..n
RankRows(df, p) == [i \in 1..Len(df) |-> With(df[p[i]], [rank |-> i])]

TopN == 50

\* lines 967-1029: the report entries of the first TopN rows.  idx is the
\* row's position in the uploaded file; the JSON entry does not carry it, the
\* model keeps it to tell which file row an entry came from
Rankings(df) ==
  LET Entry(row) ==
        [rank |-> row.rank, company |-> row.name.id, symbol |-> row.symbol,
         idx |-> row.idx,
         compositeScore |-> row.composite_score, buffettScore |-> row.buffett_score,
         lynchScore |-> row.lynch_score, growthScore |-> row.growth_score,
         riskWarnings |-> row.risk_warnings, qualityScore |-> row.quality_score,
         cashFlowQuality |-> row.cf_quality_score, valuationScore |-> row.valuation_score,
         valuationWarnings |-> row.valuation_warnings, sector |-> row.sector,
         sectorAdjustment |-> row.sector_adjustment,
         sectorInsights |-> row.sector_insights,
         investmentTier |-> row.investment_tier,
         investmentTierName |-> row.investment_tier_name,
         isFinancialsDetected |-> is_financials(row),
         metrics |-> row.m]
  IN  MapRows(SubSeq(df, 1, Min2(TopN, Len(df))), Entry)

\* lines 1047-1059: the report
ResponseOf(df, p, mode, disqualified, stats) ==
  [status |-> 200,
   rankings |-> Rankings(df),
   philosophy |-> p,
   totalCompanies |-> Len(df),
   disqualifiedCount |-> Len(disqualified),
   disqualifiedCompanies |-> disqualified,
   tierStatistics |-> stats,
   fcfDQMode |-> mode]

\* lines 1035-1042: the metadata of the snapshot
SnapshotMetadata(df, disqualified) ==
  [total_analyzed |-> Len(df), disqualified |-> Len(disqualified)]

(***************************************************************************)
(* State.                                                                  *)
(*   pc          where the request handler analyze_rankings is             *)
(*   philosophy, fcfDQMode, file   the form fields and the uploaded table  *)
(*   df, normalized_df             the handler's two data frames           *)
(*   disqualified_companies        its audit list                          *)
(*   tier_stats                    get_tier_summary's result               *)
(*   response                      what the caller gets                    *)
(*   snapshots                     ranking_snapshots.json of the tracker   *)
(*   argsort                       the tie orders the sort has produced:   *)
(*                                 score column -> order of the rows       *)
(*   workers                       the worker processes of the service,    *)
(*                                 each with the request it handles        *)
(*   probe                         one call of a row function: its input   *)
(*                                 and its result                          *)
(*                                 or two requests side by side: their     *)
(*                                 inputs and their ranked rows            *)
(***************************************************************************)
VARIABLES pc, philosophy, fcfDQMode, file, df, normalized_df, disqualified_companies,
          tier_stats, response, snapshots, probe, argsort, workers

vars == <<pc, philosophy, fcfDQMode, file, df, normalized_df, disqualified_companies,
          tier_stats, response, snapshots, probe, argsort, workers>>

request_vars == <<philosophy, fcfDQMode, file>>

NoResponse == [status |-> 0]

\* the worker processes that serve the endpoint
Workers == {"w1", "w2", "w3"}
NoProbe == [fn |-> "none"]

Init ==
  /\ pc = "idle"
  /\ philosophy = ""
  /\ fcfDQMode = ""
  /\ file = <<>>
  /\ df = <<>>
  /\ normalized_df = <<>>
  /\ disqualified_companies = <<>>
  /\ tier_stats = <<>>
  /\ response = NoResponse
  /\ snapshots = <<>>
  /\ probe = NoProbe
  /\ argsort = <<>>
  /\ workers = [w \in Workers |-> [st |-> "idle"]]

\* POST /ranking/analyze arrives; lines 577-582 validate the two form fields
Request ==
  /\ pc = "idle"
  /\ \E p \in PhilosophyInputs, mode \in ModeInputs, f \in Tables :
       /\ philosophy' = p
       /\ fcfDQMode' = mode
       /\ file' = f
       /\ IF config_error(p, mode) # ""
            THEN /\ pc' = "rejected"
                 /\ response' = [status |-> 400, detail |-> config_error(p, mode)]
            ELSE /\ pc' = "validated"
                 /\ UNCHANGED response
  /\ UNCHANGED <<df, normalized_df, disqualified_companies, tier_stats, snapshots, probe, argsort, workers>>

\* lines 584-697: the file is read and its columns are mapped
ReadFile ==
  /\ pc = "validated"
  /\ df' = ReadRows(file)
  /\ pc' = "loaded"
  /\ UNCHANGED <<request_vars, normalized_df, disqualified_companies, tier_stats,
                 response, snapshots, probe, argsort, workers>>

\* lines 699-731: numeric conversion and the fill of missing values
FillMissing ==
  /\ pc = "loaded"
  /\ df' = ConvertNumeric(df)
  /\ pc' = "filled"
  /\ UNCHANGED <<request_vars, normalized_df, disqualified_companies, tier_stats,
                 response, snapshots, probe, argsort, workers>>

\* lines 733-747
NormalizeTable ==
  /\ pc = "filled"
  /\ normalized_df' = Normalize(df)
  /\ pc' = "normalized"
  /\ UNCHANGED <<request_vars, df, disqualified_companies, tier_stats, response,
                 snapshots, probe, argsort, workers>>

\* lines 749-769
Score ==
  /\ pc = "normalized"
  /\ df' = ScoreRows(df, normalized_df, philosophy, fcfDQMode)
  /\ pc' = "scored"
  /\ UNCHANGED <<request_vars, normalized_df, disqualified_companies, tier_stats,
                 response, snapshots, probe, argsort, workers>>

\* lines 771-788
Disqualify ==
  /\ pc = "scored"
  /\ LET marked == MarkDisqualified(df, fcfDQMode)
     IN  /\ disqualified_companies' = DisqualifiedCompanies(marked)
         /\ df' = FilterDisqualified(marked)
  /\ pc' = "filtered"
  /\ UNCHANGED <<request_vars, normalized_df, tier_stats, response, snapshots, probe, argsort, workers>>

\* lines 790-826
SectorAdjust ==
  /\ pc = "filtered"
  /\ df' = AdjustRows(df, fcfDQMode)
  /\ pc' = "adjusted"
  /\ UNCHANGED <<request_vars, normalized_df, disqualified_companies, tier_stats,
                 response, snapshots, probe, argsort, workers>>

\* lines 828-837; an exception the handler does not catch is a 500
ClassifyTiers ==
  /\ pc = "adjusted"
  /\ IF TierStageRaises(df)
       THEN /\ pc' = "error"
            /\ response' = [status |-> 500, detail |-> "KeyError"]
            /\ UNCHANGED <<df, tier_stats>>
       ELSE /\ pc' = "tiered"
            /\ df' = ClassifyRows(df)
            /\ tier_stats' = get_tier_summary(ClassifyRows(df))
            /\ UNCHANGED response
  /\ UNCHANGED <<request_vars, normalized_df, disqualified_companies, snapshots, probe, argsort, workers>>

\* lines 917-919
SortRank ==
  /\ pc = "tiered"
  /\ \E p \in sort_values(df, argsort) :
       /\ df' = RankRows(df, p)
       /\ argsort' = Sorted(argsort, df, p)
  /\ pc' = "sorted"
  /\ UNCHANGED <<request_vars, normalized_df, disqualified_companies, tier_stats,
                 response, snapshots, probe, workers>>

\* save_ranking_snapshot: the stored list is loaded, extended and written back
SaveSnapshot(store, rankings, p, metadata) ==
  Append(store, [philosophy |-> p,
                 rankings |-> SubSeq(rankings, 1, Min2(TopN, Len(rankings))),
                 metadata |-> metadata,
                 total_companies |-> Len(rankings)])

\* lines 921-1059: the report is built, the snapshot saved, the report returned
Respond ==
  /\ pc = "sorted"
  /\ snapshots' = SaveSnapshot(snapshots, Rankings(df), philosophy,
                                SnapshotMetadata(df, disqualified_companies))
  /\ response' = ResponseOf(df, philosophy, fcfDQMode, disqualified_companies, tier_stats)
  /\ pc' = "returned"
  /\ UNCHANGED <<request_vars, df, normalized_df, disqualified_companies, tier_stats, probe,
                 argsort, workers>>

Next ==
  \/ Request
  \/ ReadFile
  \/ FillMissing
  \/ NormalizeTable
  \/ Score
  \/ Disqualify
  \/ SectorAdjust
  \/ ClassifyTiers
  \/ SortRank
  \/ Respond

Spec == Init /\ [][Next]_vars

(***************************************************************************)
(* The row functions on their own: one call of should_disqualify,          *)
(* calculate_risk_penalties (with the discount calculate_composite_score   *)
(* takes from it) or classify_investment_tier on a row drawn from          *)
(* ProbeRows.  NoColumn marks a column the row's table does not have.      *)
(***************************************************************************)
NoColumn == NaN - 1

ProbeRow(name, fcf, pe, de, roe, roce, mcap, growth, ret) ==
  LET all == ("fcf" :> fcf) @@ ("pe_ratio" :> pe) @@ ("debt_equity" :> de)
             @@ ("roe" :> roe) @@ ("roce" :> roce) @@ ("market_cap" :> mcap)
             @@ ("profit_growth_3yr" :> growth) @@ ("return_1yr" :> ret)
  IN  [name |-> name, m |-> [c \in {x \in DOMAIN all : all[x] # NoColumn} |-> all[c]]]

ProbeRows ==
  { ProbeRow(name, fcf, pe, de, roe, roce, mcap, growth, ret) :
      name \in {AlphaTools, DeltaBank},
      fcf \in {NoColumn, U(-600), U(-200), U(-50), U(6), U(8), U(150), U(1200)},
      pe \in {NoColumn, U(18), U(30), U(120)},
      de \in {NoColumn, 20, 80, 120, 220},
      roe \in {NoColumn, U(-4), U(6), U(14), U(16), U(26)},
      roce \in {U(10), U(17), U(22)},
      mcap \in {NoColumn, U(1500)},
      growth \in {U(-10), U(20)},
      ret \in {NoColumn, U(2500)} }

\* rows with a P/E above 500
AbsurdPeRows ==
  { ProbeRow(name, fcf, pe, de, roe, U(17), NoColumn, U(20), NoColumn) :
      name \in {AlphaTools, DeltaBank},
      fcf \in {NoColumn, U(-600), U(150)},
      pe \in {U(500), U(501), U(600)},
      de \in {NoColumn, 220},
      roe \in {NoColumn, U(-4), U(14)} }

ProbeDisqualify ==
  /\ probe.fn = "none"
  /\ \E row \in ProbeRows \cup AbsurdPeRows, mode \in valid_modes :
       probe' = [fn |-> "should_disqualify", row |-> row, mode |-> mode,
                 verdict |-> should_disqualify(row, mode)]
  /\ UNCHANGED <<pc, request_vars, df, normalized_df, disqualified_companies, tier_stats,
                 response, snapshots, argsort, workers>>

\* lines 474-476 of calculate_composite_score: the penalties and the factor
ProbePenalties ==
  /\ probe.fn = "none"
  /\ \E row \in ProbeRows, mode \in valid_modes :
       LET penalties == calculate_risk_penalties(row, mode)
       IN  probe' = [fn |-> "calculate_risk_penalties", row |-> row, mode |-> mode,
                     penalties |-> penalties,
                     total_penalty |-> SumValues(penalties),
                     factor |-> penalty_factor(SumValues(penalties))]
  /\ UNCHANGED <<pc, request_vars, df, normalized_df, disqualified_companies, tier_stats,
                 response, snapshots, argsort, workers>>

ProbeTier ==
  /\ probe.fn = "none"
  /\ \E row \in ProbeRows :
       probe' = [fn |-> "classify_investment_tier", row |-> row,
                 tier |-> classify_investment_tier(row)]
  /\ UNCHANGED <<pc, request_vars, df, normalized_df, disqualified_companies, tier_stats,
                 response, snapshots, argsort, workers>>

\* rows for the three multipliers: each column is absent or has one of a few
\* values; fcf_3yr and fcf_5yr come together, and so do cmp_sales and opm
MultiplierRow(roe, de, fcf, peg, pat, steady, turnover, pe, growth, mcap, sales) ==
  LET all == ("roe" :> roe) @@ ("debt_equity" :> de) @@ ("fcf" :> fcf) @@ ("peg" :> peg)
             @@ ("pat" :> pat) @@ ("fcf_3yr" :> steady) @@ ("fcf_5yr" :> steady)
             @@ ("asset_turnover" :> turnover) @@ ("pe_ratio" :> pe)
             @@ ("profit_growth_3yr" :> growth) @@ ("market_cap" :> mcap)
             @@ ("cmp_sales" :> sales)
             @@ ("opm" :> IF sales = NoColumn THEN NoColumn ELSE U(8))
  IN  [name |-> AlphaTools, m |-> [c \in {x \in DOMAIN all : all[x] # NoColumn} |-> all[c]]]

MultiplierRows ==
  { MultiplierRow(roe, de, fcf, peg, pat, steady, turnover, pe, growth, mcap, sales) :
      roe \in {NoColumn, U(3), U(8), U(40)},
      de \in {NoColumn, 120, 250},
      fcf \in {NoColumn, U(-200), U(800)},
      peg \in {NoColumn, U(3)},
      pat \in {NoColumn, U(900)},
      steady \in {NoColumn, U(700)},
      turnover \in {NoColumn, 120},
      pe \in {NoColumn, U(8), U(40)},
      growth \in {NoColumn, U(10), U(20)},
      mcap \in {NoColumn, U(5000)},
      sales \in {NoColumn, U(12)} }

\* lines 466-472 of calculate_composite_score: the three multipliers
ProbeMultipliers ==
  /\ probe.fn = "none"
  /\ \E row \in MultiplierRows :
       probe' = [fn |-> "multipliers", row |-> row,
                 quality |-> assess_quality_score(row),
                 cash_flow |-> assess_cash_flow_quality(row),
                 valuation |-> assess_valuation_reasonableness(row).score]
  /\ UNCHANGED <<pc, request_vars, df, normalized_df, disqualified_companies, tier_stats,
                 response, snapshots, argsort, workers>>

\* names for the sector adjustment: a name the sector keywords put in Banking
\* without any of the financial name heuristics, and a financial name that
\* the sector keywords put in IT
CrestCapital == [id |-> "crest capital", kw |-> {"capital"}]
ZenFintech == [id |-> "zen fintech", kw |-> {"tech", "fintech"}]

SectorRow(name, de, roe, fcf, opm, roce) ==
  LET all == ("debt_equity" :> de) @@ ("roe" :> roe) @@ ("fcf" :> fcf) @@ ("opm" :> opm)
             @@ ("roce" :> roce)
  IN  [name |-> name, m |-> [c \in {x \in DOMAIN all : all[x] # NoColumn} |-> all[c]]]

SectorRows ==
  { SectorRow(name, de, roe, fcf, opm, roce) :
      name \in {AlphaTools, OmegaInfotech, DeltaBank, CrestCapital, ZenFintech},
      de \in {NoColumn, 30, 120, 220, 400, 600},
      roe \in {NoColumn, U(6), U(14), U(60)},
      fcf \in {NoColumn, U(-200), U(800)},
      opm \in {NoColumn, U(8), U(50)},
      roce \in {NoColumn, U(30)} }

\* the sector ids the function can be handed
SectorIds == DOMAIN SECTOR_BENCHMARKS \cup {"General"}

\* base scores, in tenths
BaseScores == {0, 83, 1000}

\* lines 807-820: one call of adjust_score_for_sector with the penalties of the
\* row; at_call_site says that the sector is the one analyze_rankings passes
ProbeSector ==
  /\ probe.fn = "none"
  /\ \E row \in SectorRows, sector \in SectorIds, base \in BaseScores :
       LET penalties == calculate_risk_penalties(row, "financials_only_off")
       IN  probe' = [fn |-> "adjust_score_for_sector", row |-> row, sector |-> sector,
                     at_call_site |-> (sector = get_sector_from_name(row.name)),
                     base_score |-> base, penalties |-> penalties,
                     result |-> adjust_score_for_sector(base, row, sector, penalties)]
  /\ UNCHANGED <<pc, request_vars, df, normalized_df, disqualified_companies, tier_stats,
                 response, snapshots, argsort, workers>>

NextRow ==
  ProbeDisqualify \/ ProbePenalties \/ ProbeTier \/ ProbeMultipliers \/ ProbeSector

SpecRow == Init /\ [][NextRow]_vars

(***************************************************************************)
(* Two requests side by side.  Run(f, p, mode) is analyze_rankings from    *)
(* the file to the report, as the composition of its stages; of every      *)
(* ranked entry it keeps the file row, the tier and the score.  Each stage *)
(* result is bound as the element of a one-element set, so that it is      *)
(* computed once.                                                          *)
(***************************************************************************)
MaxPairRows == 2

\* the one element of a one-element set
Pick(S) == CHOOSE x \in S : TRUE

\* lines 917-1059: the tier and the score of the ranked entries, by file row
Report(f, p, mode, tiered) ==
  Pick({ [file |-> f, philosophy |-> p, mode |-> mode, status |-> 200,
          ranked |-> { [row |-> f[rankings[k].idx],
                        tier |-> rankings[k].investmentTier,
                        score |-> rankings[k].compositeScore] :
                       k \in 1..Len(rankings) }] :
         rankings \in { Rankings(RankRows(tiered, CHOOSE o \in SortedOrders(tiered) : TRUE)) } })

Run(f, p, mode) ==
  Pick({ Pick({ Pick({ Pick({
    IF TierStageRaises(adjusted)
      THEN [file |-> f, philosophy |-> p, mode |-> mode, status |-> 500, ranked |-> {}]
      ELSE Pick({ Report(f, p, mode, tiered) : tiered \in {ClassifyRows(adjusted)} })
    : adjusted \in {AdjustRows(FilterDisqualified(MarkDisqualified(scored, mode)), mode)} })
    : scored \in {ScoreRows(filled, normalized, p, mode)} })
    : normalized \in {Normalize(filled)} })
    : filled \in {ConvertNumeric(ReadRows(f))} })

PairPool ==
  {r \in RowPool : r.name \in {AlphaTools, GammaTraders, OmegaInfotech}}

PairTables(cols) ==
  UNION { { [i \in 1..n |-> Restrict(t[i], cols)] :
            t \in {u \in [1..n -> PairPool] : \A i, j \in 1..n : i # j => u[i] # u[j]} } :
          n \in 1..MaxPairRows }

PairPhilosophies == {"buffett", "growth"}

\* the first request
RunFirst ==
  /\ probe.fn = "none"
  /\ \E cols \in ColSets :
       \E f \in PairTables(cols), p \in PairPhilosophies, mode \in valid_modes :
          probe' = [fn |-> "analyze_rankings", a |-> Run(f, p, mode)]
  /\ UNCHANGED <<pc, request_vars, df, normalized_df, disqualified_companies, tier_stats,
                 response, snapshots, argsort, workers>>

\* the second request, on a file with the columns of the first
RunSecond ==
  /\ probe.fn = "analyze_rankings"
  /\ \E f \in PairTables(Columns(probe.a.file)), p \in PairPhilosophies,
        mode \in valid_modes :
          probe' = [fn |-> "analyze_rankings twice", a |-> probe.a, b |-> Run(f, p, mode)]
  /\ UNCHANGED <<pc, request_vars, df, normalized_df, disqualified_companies, tier_stats,
                 response, snapshots, argsort, workers>>

NextPair == RunFirst \/ RunSecond

SpecPair == Init /\ [][NextPair]_vars

(***************************************************************************)
(* The service: worker processes that each handle one request.  A worker   *)
(* runs the handler up to the report in one step (it shares nothing with   *)
(* the other processes there), then saves the snapshot in two: the stored  *)
(* list is loaded, and the extended list is written back.                  *)
(***************************************************************************)
AlphaForge == [id |-> "alpha forge", kw |-> {}]

\* three rows: alpha tools, the same metrics under a second name (so that the
\* two score the same), and star insurance, which every mode disqualifies
ServePool ==
  LET alpha == CHOOSE r \in RowPool : r.name = AlphaTools
      star == CHOOSE r \in RowPool : r.name = StarInsurance
  IN  [alpha |-> Restrict(alpha, CoreCols),
       forge |-> Restrict([alpha EXCEPT !.name = AlphaForge], CoreCols),
       star |-> Restrict(star, CoreCols)]

\* the uploaded tables: the three rows with the two equal ones in either order
ServeTables ==
  { <<ServePool.alpha, ServePool.forge, ServePool.star>>,
    <<ServePool.forge, ServePool.star, ServePool.alpha>> }

ServePhilosophies == {"buffett", "growth"}

\* lines 584-845: the table before the sort, or the KeyError of the tier stage
Analyze(f, p, mode) ==
  Pick({ Pick({ Pick({
    IF TierStageRaises(adjusted)
      THEN [raises |-> TRUE]
      ELSE [raises |-> FALSE,
            tiered |-> ClassifyRows(adjusted),
            disqualified |-> DisqualifiedCompanies(marked)]
    : adjusted \in {AdjustRows(FilterDisqualified(marked), mode)} })
    : marked \in {MarkDisqualified(ScoreRows(filled, Normalize(filled), p, mode), mode)} })
    : filled \in {ConvertNumeric(ReadRows(f))} })

\* lines 567-1029 in the worker w
Handle(w) ==
  /\ workers[w].st = "idle"
  /\ \E f \in ServeTables, p \in ServePhilosophies, mode \in {"financials_only_off"} :
       \E a \in {Analyze(f, p, mode)} :
          LET request == [file |-> f, philosophy |-> p, fcfDQMode |-> mode]
          IN  IF a.raises
                THEN /\ workers' = [workers EXCEPT ![w] =
                                      [st |-> "failed", request |-> request,
                                       response |-> [status |-> 500, detail |-> "KeyError"]]]
                     /\ UNCHANGED argsort
                ELSE \E o \in sort_values(a.tiered, argsort) :
                       /\ argsort' = Sorted(argsort, a.tiered, o)
                       /\ workers' = [workers EXCEPT ![w] =
                            [st |-> "handled", request |-> request,
                             response |-> ResponseOf(RankRows(a.tiered, o), p, mode,
                                            a.disqualified, get_tier_summary(a.tiered))]]
  /\ UNCHANGED <<pc, request_vars, df, normalized_df, disqualified_companies, tier_stats,
                 response, snapshots, probe>>

\* save_ranking_snapshot, lines 58-59: snapshots = self._load_snapshots()
LoadSnapshots(w) ==
  /\ workers[w].st = "handled"
  /\ workers' = [workers EXCEPT ![w] =
                   [st |-> "saving", request |-> workers[w].request,
                    response |-> workers[w].response, loaded |-> snapshots]]
  /\ UNCHANGED <<pc, request_vars, df, normalized_df, disqualified_companies, tier_stats,
                 response, snapshots, probe, argsort>>

\* save_ranking_snapshot, lines 60-64, and the return of the report
WriteSnapshots(w) ==
  /\ workers[w].st = "saving"
  /\ snapshots' = SaveSnapshot(workers[w].loaded, workers[w].response.rankings,
                               workers[w].request.philosophy,
                               [total_analyzed |-> workers[w].response.totalCompanies,
                                disqualified |-> workers[w].response.disqualifiedCount])
  /\ workers' = [workers EXCEPT ![w] =
                   [st |-> "returned", request |-> workers[w].request,
                    response |-> workers[w].response]]
  /\ UNCHANGED <<pc, request_vars, df, normalized_df, disqualified_companies, tier_stats,
                 response, probe, argsort>>

NextServe == \E w \in Workers : Handle(w) \/ LoadSnapshots(w) \/ WriteSnapshots(w)

SpecServe == Init /\ [][NextServe]_vars

(***************************************************************************)
(* Claims.                                                                 *)
(***************************************************************************)
AfterFilter == {"filtered", "adjusted", "tiered", "sorted", "returned", "error"}

\* the uploaded table as the fill stage leaves it, and as the scoring stage does
FilledFile == ConvertNumeric(ReadRows(file))
ScoredFile == ScoreRows(FilledFile, Normalize(FilledFile), philosophy, fcfDQMode)

\* C1: a row for which should_disqualify returns true is in no later stage's
\* table, in no entry of the returned ranking and in no tier's company list
C1_DisqualifiedNeverRanked ==
  /\ pc \in AfterFilter =>
       \A i \in 1..Len(df) : ~should_disqualify(df[i], fcfDQMode).dq
  /\ pc = "returned" =>
       LET filled == FilledFile
           listed == UNION { { response.tierStatistics[t].companies[k] :
                               k \in 1..Len(response.tierStatistics[t].companies) } :
                             t \in 1..4 }
       IN  /\ \A k \in 1..Len(response.rankings) :
                LET e == response.rankings[k]
                IN  /\ e.metrics = filled[e.idx].m
                    /\ e.company = filled[e.idx].name.id
                    /\ ~should_disqualify(filled[e.idx], fcfDQMode).dq
           /\ \A i \in 1..Len(filled) :
                should_disqualify(filled[i], fcfDQMode).dq => filled[i].name.id \notin listed

\* C1 witness: a report whose table held a disqualified row that scored at
\* least as high as every surviving row
C1_Witness ==
  /\ pc = "returned"
  /\ Len(response.rankings) > 0
  /\ LET scored == ScoredFile
     IN  \E i \in 1..Len(scored) :
           /\ should_disqualify(scored[i], fcfDQMode).dq
           /\ \A j \in 1..Len(scored) :
                scored[i].composite_score >= scored[j].composite_score

\* the three FCF-based rules and the other rules, as the claims state them
FcfRuleMatches(row) ==
  \/ Has(row, "fcf") /\ row.m["fcf"] < U(-500)
  \/ Has(row, "fcf") /\ Has(row, "debt_equity") /\ row.m["fcf"] < U(-100)
       /\ row.m["debt_equity"] > 200
  \/ Has(row, "fcf") /\ Has(row, "market_cap") /\ row.m["fcf"] > 0 /\ row.m["fcf"] < U(10)
       /\ row.m["market_cap"] > U(1000) /\ 200 * row.m["fcf"] < row.m["market_cap"]

OtherRuleMatches(row) ==
  \/ Has(row, "pe_ratio") /\ row.m["pe_ratio"] > U(100)
  \/ Has(row, "roe") /\ row.m["roe"] < 0
  \/ Has(row, "return_1yr") /\ Has(row, "fcf") /\ Has(row, "roe")
       /\ Abs(row.m["return_1yr"]) > U(2000) /\ row.m["fcf"] < 0 /\ row.m["roe"] < U(15)

FcfReasons ==
  {"Massive cash burn", "Negative FCF with very high debt (bankruptcy risk)", "Minimal FCF"}

GateOpenFor(row, mode) ==
  \/ mode = "global_on"
  \/ mode = "financials_only_off" /\ ~is_financials(row)

\* C2: an FCF-based reason is given only with the gate open for the row (every
\* row under global_on, non-financial rows under financials_only_off, no row
\* under global_off); a row matching only FCF-based rules is disqualified
\* exactly when the gate is open for it
C2_FcfRulesGatedByMode ==
  probe.fn = "should_disqualify" =>
    /\ probe.verdict.reason \in FcfReasons => GateOpenFor(probe.row, probe.mode)
    /\ FcfRuleMatches(probe.row) /\ GateOpenFor(probe.row, probe.mode) => probe.verdict.dq
    /\ ~OtherRuleMatches(probe.row) =>
         (probe.verdict.dq <=> FcfRuleMatches(probe.row) /\ GateOpenFor(probe.row, probe.mode))

\* C2 witness: a financial row matching only an FCF-based rule passes under
\* financials_only_off
C2_Witness ==
  /\ probe.fn = "should_disqualify"
  /\ probe.mode = "financials_only_off"
  /\ is_financials(probe.row)
  /\ FcfRuleMatches(probe.row) /\ ~OtherRuleMatches(probe.row)
  /\ ~probe.verdict.dq

\* C3: a row with ROE < 0 or P/E > 100 is disqualified under every mode,
\* financial or not
C3_NegativeRoeExtremePeAlways ==
  (/\ probe.fn = "should_disqualify"
   /\ \/ Has(probe.row, "roe") /\ probe.row.m["roe"] < 0
      \/ Has(probe.row, "pe_ratio") /\ probe.row.m["pe_ratio"] > U(100))
  => probe.verdict.dq

\* C3 witness: a financial row with negative ROE and no other matching rule,
\* disqualified under global_off
C3_Witness ==
  /\ probe.fn = "should_disqualify"
  /\ probe.mode = "global_off"
  /\ is_financials(probe.row)
  /\ Has(probe.row, "roe") /\ probe.row.m["roe"] < 0
  /\ ~(Has(probe.row, "pe_ratio") /\ probe.row.m["pe_ratio"] > U(100))
  /\ probe.verdict = [dq |-> TRUE, reason |-> "Negative ROE"]

PenaltyCap == 60

\* C4: the penalty total in the composite multiplier is min(sum, 0.6), so the
\* factor (1 - total) is at least 0.4
C4_PenaltyCapped ==
  probe.fn = "calculate_risk_penalties" =>
    /\ probe.factor = 100 - Min2(probe.total_penalty, PenaltyCap)
    /\ probe.factor >= 100 - PenaltyCap

\* C4 witness: a row whose penalties sum to more than 1.0
C4_Witness ==
  /\ probe.fn = "calculate_risk_penalties"
  /\ probe.total_penalty > 100
  /\ probe.factor = 40

\* the tier rule as the claim states it; an absent metric meets no threshold
ClaimedTier(row) ==
  LET Above(c, x) == Has(row, c) /\ row.m[c] > x
      Below(c, x) == Has(row, c) /\ row.m[c] < x
  IN  IF Above("roe", U(20)) /\ Above("roce", U(20)) /\ Below("pe_ratio", U(25))
         /\ Above("fcf", U(500)) /\ Below("debt_equity", 50)
        THEN 1
      ELSE IF Above("roe", U(15)) /\ Above("roce", U(15)) /\ Below("pe_ratio", U(35))
              /\ Above("fcf", U(100)) /\ Below("debt_equity", 100)
        THEN 2
      ELSE IF (Above("roe", U(12)) \/ (Above("fcf", U(1000)) /\ Above("profit_growth_3yr", 0)))
              /\ Below("debt_equity", 150)
        THEN 3
      ELSE 4

\* C5: classify_investment_tier returns the first matching tier of the four
\* threshold rules, one tier in 1..4 for every row
C5_TierIsFirstMatch ==
  probe.fn = "classify_investment_tier" =>
    /\ probe.tier \in 1..4
    /\ probe.tier = ClaimedTier(probe.row)

\* C5 witness: a Tier 3 row by the FCF-and-growth alternative, ROE at most 12
C5_Witness ==
  /\ probe.fn = "classify_investment_tier"
  /\ probe.tier = 3
  /\ Has(probe.row, "roe") /\ probe.row.m["roe"] <= U(12)
  /\ probe.row.m["fcf"] > U(1000)

\* C9: a financial row with FCF < 0 carries the negative-FCF penalty 0.10 and
\* the row with the same metrics and a non-financial name carries 0.40, under
\* financials_only_off
C9_FinancialNegativeFcfSofter ==
  (/\ probe.fn = "calculate_risk_penalties"
   /\ probe.mode = "financials_only_off"
   /\ is_financials(probe.row)
   /\ Has(probe.row, "fcf") /\ probe.row.m["fcf"] < 0)
  => LET twin == [probe.row EXCEPT !.name = AlphaTools]
         other == calculate_risk_penalties(twin, probe.mode)
     IN  /\ ~is_financials(twin)
         /\ "negative_fcf" \in DOMAIN probe.penalties
         /\ "negative_fcf" \in DOMAIN other
         /\ probe.penalties["negative_fcf"] = 10
         /\ other["negative_fcf"] = 40
         /\ probe.penalties["negative_fcf"] < other["negative_fcf"]

\* C9 witness: a financial row with FCF -200 and its penalty of 0.10
C9_Witness ==
  /\ probe.fn = "calculate_risk_penalties"
  /\ probe.mode = "financials_only_off"
  /\ is_financials(probe.row)
  /\ Has(probe.row, "fcf") /\ probe.row.m["fcf"] = U(-200)
  /\ probe.penalties["negative_fcf"] = 10

\* the values of a column that the file holds (missing cells left out)
PresentValues(col) == {file[i].m[col] : i \in Present(file, col)}

\* C7: every score of the normalized table is in [0, 100] (tenths: 0..1000),
\* and a column whose values in the file are all equal scores 50 in every row
C7_NormalizedRange ==
  pc = "normalized" =>
    /\ Len(normalized_df) = Len(file)
    /\ \A i \in 1..Len(normalized_df) :
         /\ DOMAIN normalized_df[i] = DOMAIN file[i].m
         /\ \A c \in DOMAIN normalized_df[i] :
              /\ normalized_df[i][c] >= 0
              /\ normalized_df[i][c] <= 1000
              /\ Cardinality(PresentValues(c)) <= 1 => normalized_df[i][c] = 500

\* C7 witness: a table of several rows with a constant column next to a column
\* that has scores 0 and 100
C7_Witness ==
  /\ pc = "normalized"
  /\ Len(file) >= 2
  /\ \E c \in DOMAIN file[1].m :
       /\ Cardinality(PresentValues(c)) = 1
       /\ Cardinality(Present(file, c)) >= 2
       /\ normalized_df[1][c] = 500
  /\ \E c \in DOMAIN file[1].m, i, j \in 1..Len(file) :
       normalized_df[i][c] = 0 /\ normalized_df[j][c] = 1000

\* a cell the file leaves empty, in a column with differing present values
MissingCells ==
  {<<i, c>> \in (1..Len(file)) \X FileCols :
     /\ c \in DOMAIN file[i].m
     /\ file[i].m[c] = NaN
     /\ Cardinality(PresentValues(c)) >= 2}

C10_InvalidConfigFailsFast ==
  (pc # "idle" /\ (philosophy \notin PhilosophyIds \/ fcfDQMode \notin valid_modes)) =>
    /\ pc = "rejected"
    /\ response.status = 400
    /\ DOMAIN response = {"status", "detail"}
    /\ df = <<>> /\ normalized_df = <<>>
    /\ disqualified_companies = <<>> /\ tier_stats = <<>>
    /\ snapshots = <<>>

\* C10 witness: a rejected request with a registered philosophy and the mode "off"
C10_Witness ==
  /\ pc = "rejected"
  /\ philosophy = "buffett" /\ fcfDQMode = "off"
  /\ response = [status |-> 400, detail |-> "Invalid fcfDQMode"]

\* the metrics classify_investment_tier reads
TierMetrics == {"roe", "roce", "pe_ratio", "fcf", "debt_equity", "profit_growth_3yr"}

\* the file holds a value for every tier metric it has a column for
TierMetricsPresent(row) == \A c \in TierMetrics \cap DOMAIN row.m : row.m[c] # NaN

Answered == { w \in Workers : workers[w].st # "idle" }

\* the report has two rows with the same final score
HasTie(rankings) ==
  \E i, j \in 1..Len(rankings) :
     i # j /\ rankings[i].compositeScore = rankings[j].compositeScore

C12_DescendingStable ==
  \A w \in Answered :
     workers[w].response.status = 200 =>
       LET r == workers[w].response.rankings
       IN  \A i, j \in 1..Len(r) :
              i < j => \/ r[i].compositeScore > r[j].compositeScore
                       \/ /\ r[i].compositeScore = r[j].compositeScore
                          /\ r[i].idx < r[j].idx

(***************************************************************************)
(* Claims about one request: Spec.                                         *)
(***************************************************************************)
\* the three-company table of the scenario: the five metrics of each company
ScenarioTable ==
  LET row(n) == Restrict(CHOOSE r \in RowPool : r.name = n, CoreCols)
  IN  <<row(AlphaTools), row(BetaWorks), row(GammaTraders)>>

ScenarioReturned ==
  /\ pc = "returned"
  /\ file = ScenarioTable /\ philosophy = "buffett" /\ fcfDQMode = "financials_only_off"

\* the report's entry of a company
EntryOf(rankings, id) == { rankings[i] : i \in { j \in 1..Len(rankings) : rankings[j].company = id } }

\* C13: for the table {25, 22, 18, 800, 0.3}, {9, 8, 40, -600, 2.2},
\* {16, 17, 30, 150, 0.8} (roe, roce, pe, fcf, d/e) under buffett and
\* financials_only_off, company 1 is ranked, in Tier 1 and has the highest
\* score; company 2 is in the disqualified list for its cash burn (FCF below
\* -500) and not ranked; company 3 is in Tier 2.
C13_Scenario ==
  ScenarioReturned =>
    /\ response.status = 200
    /\ \A d \in 1..Len(response.disqualifiedCompanies) :
          response.disqualifiedCompanies[d].name # AlphaTools.id
    /\ \E e \in EntryOf(response.rankings, AlphaTools.id) :
          /\ e.investmentTier = 1
          /\ e.rank = 1
          /\ \A i \in 1..Len(response.rankings) :
                response.rankings[i].company # AlphaTools.id
                  => response.rankings[i].compositeScore < e.compositeScore
    /\ response.disqualifiedCompanies =
          <<[name |-> BetaWorks.id, reason |-> "Massive cash burn"]>>
    /\ EntryOf(response.rankings, BetaWorks.id) = {}
    /\ \E e \in EntryOf(response.rankings, GammaTraders.id) : e.investmentTier = 2
    /\ Len(response.rankings) = 2

C13_Witness == ScenarioReturned /\ response.status = 200

RuleOrder ==
  << "Massive cash burn", "Extreme P/E ratio", "Absurd P/E ratio",
     "Negative FCF with very high debt (bankruptcy risk)", "Negative ROE", "Minimal FCF",
     "Extreme volatility with poor fundamentals (speculative)" >>

RuleMatches(k, row, mode) ==
  CASE k = 1 -> Has(row, "fcf") /\ row.m["fcf"] < U(-500) /\ GateOpenFor(row, mode)
    [] k = 2 -> Has(row, "pe_ratio") /\ row.m["pe_ratio"] > U(100)
    [] k = 3 -> Has(row, "pe_ratio") /\ row.m["pe_ratio"] > U(500)
    [] k = 4 -> Has(row, "fcf") /\ Has(row, "debt_equity") /\ row.m["fcf"] < U(-100)
                  /\ row.m["debt_equity"] > 200 /\ GateOpenFor(row, mode)
    [] k = 5 -> Has(row, "roe") /\ row.m["roe"] < 0
    [] k = 6 -> Has(row, "fcf") /\ Has(row, "market_cap") /\ row.m["fcf"] > 0
                  /\ row.m["fcf"] < U(10) /\ row.m["market_cap"] > U(1000)
                  /\ 200 * row.m["fcf"] < row.m["market_cap"] /\ GateOpenFor(row, mode)
    [] k = 7 -> Has(row, "return_1yr") /\ Has(row, "fcf") /\ Has(row, "roe")
                  /\ Abs(row.m["return_1yr"]) > U(2000) /\ row.m["fcf"] < 0
                  /\ row.m["roe"] < U(15)

MatchingRules(row, mode) == { k \in 1..Len(RuleOrder) : RuleMatches(k, row, mode) }

FirstMatch(row, mode) ==
  CHOOSE k \in MatchingRules(row, mode) : \A j \in MatchingRules(row, mode) : k <= j

\* C15: every row that a rule disqualifies is exactly once in the disqualified
\* list, and its reason there is not empty: it is the reason of the first rule,
\* in the fixed order of the rules, that matches the row, also when later
\* rules match it too.
C15_ListedOnceWithFirstReason ==
  pc = "filtered" =>
    LET filled == FilledFile
        listed(i) == { d \in 1..Len(disqualified_companies) :
                         disqualified_companies[d].name = filled[i].name.id }
    IN  \A i \in 1..Len(filled) :
           IF MatchingRules(filled[i], fcfDQMode) = {}
             THEN listed(i) = {}
             ELSE /\ Cardinality(listed(i)) = 1
                  /\ \A d \in listed(i) :
                        /\ disqualified_companies[d].reason # ""
                        /\ disqualified_companies[d].reason
                             = RuleOrder[FirstMatch(filled[i], fcfDQMode)]

\* two disqualified rows in one table, one of them matching more than one rule
C15_Witness ==
  /\ pc = "filtered"
  /\ Len(disqualified_companies) = 2
  /\ \E i \in 1..Len(file) : Cardinality(MatchingRules(FilledFile[i], fcfDQMode)) >= 2
  /\ \E i \in 1..Len(file) :
        /\ MatchingRules(FilledFile[i], fcfDQMode) # {}
        /\ FirstMatch(FilledFile[i], fcfDQMode) > 1
        /\ Cardinality(MatchingRules(FilledFile[i], fcfDQMode)) >= 2

\* the workers whose request has returned its report
Returned == { w \in Workers : workers[w].st = "returned" }

\* C16: under any interleaving of concurrent requests nothing a request wrote
\* is lost or overwritten by another: the snapshot store holds one snapshot
\* for every request that has returned, with that request's ranking.
C16_NoSnapshotLost ==
  /\ Len(snapshots) = Cardinality(Returned)
  /\ \A w \in Returned :
        \E i \in 1..Len(snapshots) :
           /\ snapshots[i].philosophy = workers[w].request.philosophy
           /\ snapshots[i].rankings = workers[w].response.rankings

\* the names of a tier's ranked rows, best rank first
RankedNamesOfTier(rankings, tier) ==
  LET InTier(e) == e.investmentTier = tier
      tier_rows == SelectSeq(rankings, InTier)
  IN  [i \in 1..Len(tier_rows) |-> tier_rows[i].company]

\* C17: the tiers and the tier statistics are computed on the rows already
\* sorted and ranked: when the tier stage has run the rows carry their rank,
\* and every tier's company list in the report is in rank order.
C17_TiersOnRankedRows ==
  /\ pc = "tiered" => \A i \in 1..Len(df) : "rank" \in DOMAIN df[i]
  /\ pc = "returned" /\ response.status = 200 =>
       \A tier \in 1..4 :
          response.tierStatistics[tier].companies
            = RankedNamesOfTier(response.rankings, tier)

\* C18: a request with a registered philosophy and mode completes with a
\* report for every table with a name column: no stage raises, also when no
\* row survives the disqualification, and the report then still carries the
\* tier statistics.
C18_ValidRequestReports ==
  /\ pc # "error"
  /\ pc = "returned" =>
       /\ response.status = 200
       /\ DOMAIN response.tierStatistics = 1..4

\* the number of the four red flags that hold for a row, as the claim names
\* them: low ROE, negative growth, low FCF, high debt
RedFlagCount(row) ==
  (IF Has(row, "roe") /\ row.m["roe"] < U(10) THEN 1 ELSE 0)
  + (IF Has(row, "profit_growth_3yr") /\ row.m["profit_growth_3yr"] < 0 THEN 1 ELSE 0)
  + (IF ~is_financials(row) /\ Has(row, "fcf") /\ row.m["fcf"] < U(100)
        /\ Has(row, "market_cap") /\ row.m["market_cap"] > U(1000) THEN 1 ELSE 0)
  + (IF Has(row, "debt_equity") /\ row.m["debt_equity"] > 100 THEN 1 ELSE 0)

\* C19: the penalties of a row hold multiple_red_flags exactly when two or
\* more of the four red flags hold for it, and its value is then 0.10 times
\* their number: one of 0.2, 0.3, 0.4.
C19_CompoundPenalty ==
  probe.fn = "calculate_risk_penalties" =>
    /\ "multiple_red_flags" \in DOMAIN probe.penalties <=> RedFlagCount(probe.row) >= 2
    /\ "multiple_red_flags" \in DOMAIN probe.penalties =>
         /\ probe.penalties["multiple_red_flags"] = 10 * RedFlagCount(probe.row)
         /\ probe.penalties["multiple_red_flags"] \in {20, 30, 40}

\* a row with all four flags
C19_Witness ==
  /\ probe.fn = "calculate_risk_penalties"
  /\ RedFlagCount(probe.row) = 4
  /\ "multiple_red_flags" \in DOMAIN probe.penalties
  /\ probe.penalties["multiple_red_flags"] = 40

\* the score of a row of the adjusted table before any rounding, in
\* thousandths: the weighted sum of its normalized metrics times the three
\* multipliers times (1 - min(sum of penalties, 0.6))
UnroundedScore(row) ==
  LET ws == WeightedSum(PHILOSOPHIES[philosophy], normalized_df[row.idx])
      q == (ws * row.quality_score) \div 1000
      c == (q * row.cf_quality_score) \div 100
      v == (c * row.valuation_score) \div 100
      total == SumValues(calculate_risk_penalties(row, fcfDQMode))
  IN  (v * (100 - Min2(total, 60))) \div 100

\* the sector adjustment of a row as a factor, in ten-thousandths: what the
\* adjustment makes of a base score of 1000.0
SectorFactor(row) ==
  adjust_score_for_sector(10000, row, row.sector,
                          calculate_risk_penalties(row, fcfDQMode)).adjusted_score

\* x thousandths times f ten-thousandths, rounded once to tenths
RoundedProduct(x, f) ==
  ((x \div 1000) * f + ((x % 1000) * f + 500000) \div 1000) \div 1000

\* C20: the final score of a surviving row is the unrounded score times the
\* sector factor, rounded to one decimal once, at the end.
C20_RoundedOnce ==
  pc = "adjusted" =>
    \A i \in 1..Len(df) :
       df[i].composite_score = RoundedProduct(UnroundedScore(df[i]), SectorFactor(df[i]))

\* C20 as the code has it: the unrounded score is rounded to one decimal, the
\* rounded score is multiplied by the sector factor, and the product is
\* rounded to one decimal again.
C20_RoundedTwice ==
  pc = "adjusted" =>
    \A i \in 1..Len(df) :
       LET base == (UnroundedScore(df[i]) + 50) \div 100
       IN  df[i].composite_score = (base * SectorFactor(df[i]) + 5000) \div 10000

\* a surviving row with a sector factor other than 1 whose twice-rounded score
\* is not the once-rounded one
C20_Witness ==
  /\ pc = "adjusted"
  /\ \E i \in 1..Len(df) :
        /\ SectorFactor(df[i]) # 10000
        /\ df[i].composite_score
             # RoundedProduct(UnroundedScore(df[i]), SectorFactor(df[i]))

\* a rule before the bankruptcy rule matches the row
EarlierThanBankruptcy(row, mode) ==
  \/ Has(row, "fcf") /\ row.m["fcf"] < U(-500) /\ GateOpenFor(row, mode)
  \/ Has(row, "pe_ratio") /\ row.m["pe_ratio"] > U(100)

\* C21: every row with FCF below 0 and D/E above 2.0 for which the FCF gate
\* is open is disqualified, with the bankruptcy-risk reason unless an earlier
\* rule matched.
C21_NegativeFcfHighDebt ==
  (/\ probe.fn = "should_disqualify"
   /\ Has(probe.row, "fcf") /\ Has(probe.row, "debt_equity")
   /\ probe.row.m["fcf"] < 0 /\ probe.row.m["debt_equity"] > 200
   /\ GateOpenFor(probe.row, probe.mode)) =>
     /\ probe.verdict.dq
     /\ ~EarlierThanBankruptcy(probe.row, probe.mode) =>
          probe.verdict.reason = "Negative FCF with very high debt (bankruptcy risk)"

\* C21 with the threshold of the code: FCF below -100 and D/E above 2.0 with
\* the gate open disqualifies, with the bankruptcy-risk reason unless the
\* cash-burn or the P/E rule matched first; FCF in [-100, 0) does not by itself.
C21_BurnBelow100HighDebt ==
  (/\ probe.fn = "should_disqualify"
   /\ Has(probe.row, "fcf") /\ Has(probe.row, "debt_equity")
   /\ probe.row.m["debt_equity"] > 200
   /\ GateOpenFor(probe.row, probe.mode)) =>
     /\ probe.row.m["fcf"] < U(-100) =>
          /\ probe.verdict.dq
          /\ ~EarlierThanBankruptcy(probe.row, probe.mode) =>
               probe.verdict.reason = "Negative FCF with very high debt (bankruptcy risk)"
     /\ probe.row.m["fcf"] >= U(-100) =>
          probe.verdict.reason # "Negative FCF with very high debt (bankruptcy risk)"

\* a row with FCF -200 and D/E 2.2 that only the bankruptcy rule matches
C21_Witness ==
  /\ probe.fn = "should_disqualify"
  /\ Has(probe.row, "fcf") /\ probe.row.m["fcf"] = U(-200)
  /\ Has(probe.row, "debt_equity") /\ probe.row.m["debt_equity"] = 220
  /\ GateOpenFor(probe.row, probe.mode)
  /\ ~EarlierThanBankruptcy(probe.row, probe.mode)
  /\ probe.verdict = [dq |-> TRUE,
                      reason |-> "Negative FCF with very high debt (bankruptcy risk)"]

(***************************************************************************)
(* Claims about the sector adjustment: SpecRow, ProbeSector.               *)
(***************************************************************************)
DebtPenalties == {"high_debt", "moderate_debt"}

\* the call is one analyze_rankings makes, for a row with a debt penalty whose
\* D/E is within the debt norm of a sector that has a debt-penalty multiplier
DebtWithinTolerance ==
  /\ probe.fn = "adjust_score_for_sector"
  /\ probe.at_call_site
  /\ probe.sector \in DOMAIN SECTOR_BENCHMARKS
  /\ SECTOR_BENCHMARKS[probe.sector].debt_penalty_multiplier # None
  /\ DOMAIN probe.penalties \cap DebtPenalties # {}
  /\ Has(probe.row, "debt_equity")
  /\ probe.row.m["debt_equity"] <= SECTOR_BENCHMARKS[probe.sector].debt_equity_norm

\* the factor of the call, in ten-thousandths: what it makes of 1000.0
ProbeFactor ==
  adjust_score_for_sector(10000, probe.row, probe.sector, probe.penalties).adjusted_score

\* C22: for a row with a debt penalty and D/E within its sector's tolerance
\* the adjustment rescales the debt penalty by the sector's multiplier (the
\* returned mapping holds the penalty times the multiplier, in
\* ten-thousandths) and the adjusted score is not the one computed with the
\* unscaled penalty, which is the base score times the factor.
C22_RescaledPenaltyInScore ==
  DebtWithinTolerance =>
    /\ \A k \in DOMAIN probe.penalties \cap DebtPenalties :
          probe.result.penalties[k]
            = probe.penalties[k] * SECTOR_BENCHMARKS[probe.sector].debt_penalty_multiplier
    /\ probe.base_score > 0 =>
         probe.result.adjusted_score # (probe.base_score * ProbeFactor + 5000) \div 10000

TwiceRank(c, i) ==
  LET before == { j \in 1..Len(df) :
                    IF c \in inverse_metrics THEN df[j].m[c] > df[i].m[c]
                                             ELSE df[j].m[c] < df[i].m[c] }
      tied == { j \in 1..Len(df) : df[j].m[c] = df[i].m[c] }
  IN  2 * Cardinality(before) + Cardinality(tied) + 1

MaxTwiceRank(c) ==
  CHOOSE r \in { TwiceRank(c, i) : i \in 1..Len(df) } :
    \A i \in 1..Len(df) : TwiceRank(c, i) <= r

\* C23: the normalized score of a value is its average-rank percentile in the
\* column, (rank / max_rank) x 100 with tied values getting the mean rank of
\* their group, so that it depends on the order of the values only; here to
\* within a tenth of a point.
C23_RankPercentile ==
  pc = "normalized" =>
    \A i \in 1..Len(normalized_df) : \A c \in DOMAIN normalized_df[i] :
       Abs(normalized_df[i][c] * MaxTwiceRank(c) - 1000 * TwiceRank(c, i))
         <= MaxTwiceRank(c)

\* C23 as the code has it: the normalized score of a value is its position
\* between the column's minimum and maximum, (value - min) / (max - min) x 100,
\* taken from the maximum down for a lower-is-better column, and 50 when the
\* column is constant; to within a tenth of a point.
C23_MinMaxPosition ==
  pc = "normalized" =>
    \A i \in 1..Len(normalized_df) : \A c \in DOMAIN normalized_df[i] :
       \E lo, hi \in { df[j].m[c] : j \in 1..Len(df) } :
          /\ \A j \in 1..Len(df) : lo <= df[j].m[c] /\ df[j].m[c] <= hi
          /\ IF hi = lo
               THEN normalized_df[i][c] = 500
               ELSE LET d == IF c \in inverse_metrics THEN hi - df[i].m[c]
                                                      ELSE df[i].m[c] - lo
                    IN  Abs(normalized_df[i][c] * (hi - lo) - 1000 * d) < hi - lo

\* a column of three different values whose middle value does not score as its
\* rank would: the distances count
C23_Witness ==
  /\ pc = "normalized"
  /\ Len(df) = 3
  /\ \E c \in DOMAIN normalized_df[1] : \E i \in 1..3 :
        /\ Cardinality({ df[j].m[c] : j \in 1..3 }) = 3
        /\ normalized_df[i][c] \notin {0, 1000}
        /\ Abs(normalized_df[i][c] - 500) > 50

\* the sector tags that name a financial sector
FinancialTags == {"Banking"}

\* C24: the sector tag reported for a row and the financial or non-financial
\* treatment of the row agree: a row with negative FCF gets the softer
\* negative-FCF penalty of financial rows (0.10) exactly when its sector tag
\* is a financial one.
C24_TagAgreesWithTreatment ==
  (/\ probe.fn = "adjust_score_for_sector"
   /\ probe.at_call_site
   /\ Has(probe.row, "fcf") /\ probe.row.m["fcf"] < 0) =>
     (probe.penalties["negative_fcf"] = 10 <=> probe.sector \in FinancialTags)

\* ---------------------------------------------------------------------------
\* C25: for a row with ROE < 8 and negative 3-year profit growth that meets
\* the fortress exception (FCF > 1000 and D/E < 0.3, penalty key
\* low_roe_high_fcf), the factor applied to the composite score is strictly
\* larger (the discount strictly smaller) than the factor the same row gets
\* with the unsoftened 0.50 penalty in place of the softened 0.20.
UnsoftenedTotal == probe.total_penalty - probe.penalties["low_roe_high_fcf"] + 50

C25_FortressSoftensDiscount ==
  (/\ probe.fn = "calculate_risk_penalties"
   /\ "low_roe_high_fcf" \in DOMAIN probe.penalties) =>
     probe.factor > penalty_factor(UnsoftenedTotal)

\* ---------------------------------------------------------------------------
\* C27: in every report the ranks of the entries are exactly 1..k in entry
\* order, without gap or repeat, and the composite scores do not increase
\* with the rank; k is the smaller of the number of surviving rows and TopN;
\* totalCompanies is the number of surviving rows, and totalCompanies plus
\* disqualifiedCount is the number of rows of the uploaded file.
Survivors(filled, mode) == { i \in 1..Len(filled) : ~should_disqualify(filled[i], mode).dq }

C28_AbsurdPeUnreachable ==
  probe.fn = "should_disqualify" =>
    /\ probe.verdict.reason # "Absurd P/E ratio"
    /\ dq_absurd_pe(probe.row) =>
         /\ probe.verdict.dq
         /\ probe.verdict.reason \in {"Extreme P/E ratio", "Massive cash burn"}
         /\ probe.verdict.reason = "Massive cash burn" <=>
              (dq_massive_burn(probe.row)
                 /\ fcf_gate_open(is_financials(probe.row), probe.mode))

\* C28 witness: a row with a P/E above 500 that the burn rule does not match,
\* disqualified for its extreme P/E
C28_Witness ==
  /\ probe.fn = "should_disqualify"
  /\ dq_absurd_pe(probe.row)
  /\ ~dq_massive_burn(probe.row)
  /\ probe.verdict.dq
  /\ probe.verdict.reason = "Extreme P/E ratio"

\* ---------------------------------------------------------------------------
\* C29: adjust_score_for_sector never lowers a score.  The multiplier is 1.0
\* plus non-negative bonuses and lies in [1.0, 1.215]; for a non-negative
\* base score the adjusted score is at least the base score; the sector
\* adjustment lies in [0, 21.5] percent; for a sector without a benchmark
\* entry the score is returned unchanged with adjustment 0 and no insights.
C29_NeverLowers ==
  probe.fn = "adjust_score_for_sector" =>
    /\ ProbeFactor \in 10000..12150
    /\ probe.result.adjusted_score >= probe.base_score
    /\ probe.result.sector_adjustment \in 0..215
    /\ (10 * probe.result.sector_adjustment - ProbeFactor + 10000) \in -5..5
    /\ probe.sector \notin DOMAIN SECTOR_BENCHMARKS =>
         /\ probe.result.adjusted_score = probe.base_score
         /\ probe.result.sector_adjustment = 0
         /\ probe.result.sector_insights = <<>>

\* C29 witness: a call with all three bonuses, the ROE premium at its cap:
\* the multiplier is 1.215 and the score 100.0 becomes 121.5
C29_Witness ==
  /\ probe.fn = "adjust_score_for_sector"
  /\ probe.sector = "IT"
  /\ Has(probe.row, "fcf") /\ probe.row.m["fcf"] > 0
  /\ Has(probe.row, "roe") /\ probe.row.m["roe"] > U(50)
  /\ Has(probe.row, "opm") /\ probe.row.m["opm"] > U(24)
  /\ ProbeFactor = 12150
  /\ probe.result.sector_adjustment = 215
  /\ probe.base_score = 1000
  /\ probe.result.adjusted_score = 1215

\* ---------------------------------------------------------------------------
\* the rows of the file f at the positions S, in file order
SubFile(f, S) ==
  [k \in 1..Cardinality(S) |-> f[CHOOSE i \in S : Cardinality({j \in S : j < i}) = k - 1]]

\* the request of the current state, on the file without the rows it disqualifies
RunWithoutDisqualified ==
  Run(SubFile(file, Survivors(FilledFile, fcfDQMode)), philosophy, fcfDQMode)

\* the score the row has in the report a
ScoreIn(a, row) == Pick({ e.score : e \in { x \in a.ranked : x.row = row } })

\* C30: the normalization bounds are taken over every row of the file, the
\* rows disqualified later included: after the filter and in the report every
\* surviving row carries the normalized values computed between the minimum
\* and the maximum of all the filled rows, and its composite score is the one
\* computed from them.  So the scores and the order of surviving rows depend
\* on the metric values of disqualified rows (witness).
C30_BoundsOverEveryRow ==
  pc \in {"filtered", "returned"} =>
    LET filled == FilledFile
    IN  /\ Len(normalized_df) = Len(filled)
        /\ \A k \in 1..Len(df) : \A c \in DOMAIN normalized_df[df[k].idx] :
             LET i == df[k].idx
             IN  \E lo, hi \in { filled[j].m[c] : j \in 1..Len(filled) } :
                   /\ \A j \in 1..Len(filled) : lo <= filled[j].m[c] /\ filled[j].m[c] <= hi
                   /\ IF hi = lo
                        THEN normalized_df[i][c] = 500
                        ELSE LET d == IF c \in inverse_metrics THEN hi - filled[i].m[c]
                                                               ELSE filled[i].m[c] - lo
                             IN  Abs(normalized_df[i][c] * (hi - lo) - 1000 * d) < hi - lo
        /\ pc = "filtered" =>
             \A k \in 1..Len(df) :
                df[k].composite_score
                  = calculate_composite_score(filled[df[k].idx], PHILOSOPHIES[philosophy],
                                              normalized_df[df[k].idx], fcfDQMode)

\* C30 witness: a report of a three-row file with one disqualified row, whose
\* two ranked rows change places when the same request is made on the file
\* without the disqualified row, the fill of missing values giving the two
\* rows the same metric values in both files
C30_Witness ==
  /\ pc = "returned"
  /\ Len(file) = 3
  /\ LET kept == Survivors(FilledFile, fcfDQMode)
         alone == ConvertNumeric(ReadRows(SubFile(file, kept)))
     IN  \A k \in 1..Len(alone) : alone[k].m = SubFile(FilledFile, kept)[k].m
  /\ response.disqualifiedCount = 1
  /\ Len(response.rankings) = 2
  /\ response.rankings[1].compositeScore > response.rankings[2].compositeScore
  /\ LET alone == RunWithoutDisqualified
         first == file[response.rankings[1].idx]
         second == file[response.rankings[2].idx]
     IN  /\ alone.status = 200
         /\ Cardinality(alone.ranked) = 2
         /\ ScoreIn(alone, second) > ScoreIn(alone, first)

====
